---- MODULE Spec2Model ----
(***************************************************************************)
(* The configuration structural-diff engine of the AWS audit scripts:      *)
(*   compare_dicts      src/AWS/diffV2.py               (reference script) *)
(*   compare_dicts      src/AWS/auditorProV3.py         (dashboard copy)   *)
(*   compare_json_deep  src/AWS/claude/newAWSAuditor/s3helper.py           *)
(* and the two normalizers that feed it:                                   *)
(*   normalize_integration   src/AWS/diffV2.py, src/AWS/auditorProV3.py,   *)
(*                           src/AWS/claude/apiGAtewayTab.py               *)
(*   normalize_policy_logic  src/AWS/auditorProV3.py,                      *)
(*                           src/AWS/offline_editor.py                     *)
(* A JSON value is a record [k, s, e]: k is the node kind ("dict", "list", *)
(* "num", "str", "bool", "null"), s the payload of a scalar, e the entries *)
(* of a dict (in insertion order, as a Python dict keeps them) or the      *)
(* elements of a list.  Every entry is a record [key, val]; the key of a   *)
(* list element is "".                                                     *)
(***************************************************************************)
EXTENDS Integers, Sequences, FiniteSets, TLC

VARIABLES d1, d2, pc, differences, diffs,
          dev_details, local_details, dev_integ, local_integ,
          d_policy, s_policy, p_dev, p_stg, missing,
          stack,
          dev_json, local_json, issues_found, ui_rows, report_lines,
          c_dev, c_stg, region_context, rows,
          st

\* the method blocks of the API dashboard and their integrations
apiVars == <<dev_details, local_details, dev_integ, local_integ>>
\* the bucket policies of the S3 dashboard, their statements and the report
s3Vars == <<d_policy, s_policy, p_dev, p_stg, missing>>

\* stack: the frames of the calls of the diff that have not returned yet
\* the two API definitions, the issue count, the rows and the report lines of
\* the API dashboard
gatewayVars == <<dev_json, local_json, issues_found, ui_rows, report_lines>>
\* the two containers of the ECS dashboard, the region chosen and the rows
ecsVars == <<c_dev, c_stg, region_context, rows>>
dashVars == <<stack, gatewayVars, ecsVars>>
\* st: what the dashboard has shown (st.success, st.error, ...)

vars == <<d1, d2, pc, differences, diffs, apiVars, s3Vars, dashVars, st>>

----------------------------------------------------------------------------
(* JSON values *)

Num(n) == [k |-> "num", s |-> n, e |-> <<>>]
\* Str(n), n >= 1, is the string holding the decimal digits of n ("1", "2",
\* ...); Str(0) is the empty string ''
Str(n) == [k |-> "str", s |-> n, e |-> <<>>]
Bool(b) == [k |-> "bool", s |-> IF b THEN 1 ELSE 0, e |-> <<>>]
Null == [k |-> "null", s |-> 0, e |-> <<>>]
Entry(key, val) == [key |-> key, val |-> val]
Dict(entries) == [k |-> "dict", s |-> 0, e |-> entries]
List(items) == [k |-> "list", s |-> 0, e |-> [i \in 1..Len(items) |-> Entry("", items[i])]]

IsDict(x) == x.k = "dict"
IsList(x) == x.k = "list"
IsScalar(x) == x.k \in {"num", "str", "bool", "null"}

\* `key in d` and `d[key]`
HasKey(d, key) == \E i \in 1..Len(d.e) : d.e[i].key = key
Get(d, key) == d.e[CHOOSE i \in 1..Len(d.e) : d.e[i].key = key].val
KeysOf(d) == {d.e[i].key : i \in 1..Len(d.e)}

\* Python's ==.  Dicts compare as mappings (insertion order does not count),
\* lists element by element in order, bool is a subclass of int (True == 1),
\* a str never equals a number, None equals only None.
RECURSIVE PyEq(_, _)
PyEq(x, y) ==
  CASE IsDict(x) /\ IsDict(y) ->
         /\ Len(x.e) = Len(y.e)
         /\ \A i \in 1..Len(x.e) :
              /\ HasKey(y, x.e[i].key)
              /\ PyEq(x.e[i].val, Get(y, x.e[i].key))
    [] IsList(x) /\ IsList(y) ->
         /\ Len(x.e) = Len(y.e)
         /\ \A i \in 1..Len(x.e) : PyEq(x.e[i].val, y.e[i].val)
    [] x.k \in {"num", "bool"} /\ y.k \in {"num", "bool"} -> x.s = y.s
    [] x.k = "str" /\ y.k = "str" -> x.s = y.s
    [] x.k = "null" /\ y.k = "null" -> TRUE
    [] OTHER -> FALSE

----------------------------------------------------------------------------
(* Difference records.  compare_dicts returns strings                      *)
(*   "MISSING KEY at {path}->{key}: Present in Dev, Missing in Local"      *)
(*   "EXTRA KEY at {path}->{key}: Missing in Dev, Present in Local"        *)
(*   "LIST MISMATCH at {current_path}\n Dev: {val1}\n Local: {val2}"       *)
(*   "VALUE MISMATCH at {current_path}\n Dev: {val1}\n Local: {val2}"      *)
(* A string is modelled by its parts: the label, the path text as the      *)
(* sequence of its tokens ("->" and the keys), and the values it prints    *)
(* (none for a missing or extra key).  A printed value shows a dict's      *)
(* entries in insertion order, as the value's representation here does.    *)

\* mutant: the Local line prints val1 again
Difference_devTwice(kind, path, vals) ==
  [kind |-> kind, path |-> path,
   vals |-> IF vals = <<>> THEN <<>> ELSE <<vals[1], vals[1]>>]

Difference(kind, path, vals) == [kind |-> kind, path |-> path, vals |-> vals]

\* mutant: the path so far is dropped, f"->{key}"
Arrow_noPath(path, key) == <<"->", key>>

\* f"{path}->{key}"
Arrow(path, key) == path \o <<"->", key>>

\* f"{path}.{key}" if path else key
Dotted(path, key) == IF path # <<>> THEN path \o <<".", key>> ELSE <<key>>

\* the literal list ['uri', 'credentials', 'passthroughBehavior']
IgnoredKeys == {"uri", "credentials", "passthroughBehavior"}

\* mutant: the keys of the second loop come from a set difference, which
\* does not keep the order of d2 (here: the reverse order)
OneSided_unordered(kind, d, other, path) ==
  LET only == SelectSeq(d.e, LAMBDA en : ~HasKey(other, en.key))
      n == Len(only)
  IN  [i \in 1..n |->
         Difference(kind, Arrow(path, only[IF kind = "EXTRA KEY" THEN n + 1 - i ELSE i].key),
                    <<>>)]

\* mutant: the loop stops at the first key it reports
OneSided_firstOnly(kind, d, other, path) ==
  LET only == SelectSeq(d.e, LAMBDA en : ~HasKey(other, en.key))
  IN  IF only = <<>> THEN <<>>
      ELSE <<Difference(kind, Arrow(path, only[1].key), <<>>)>>

\* mutant: the loop's test has lost its `not`
OneSided_inverted(kind, d, other, path) ==
  LET only == SelectSeq(d.e, LAMBDA en : HasKey(other, en.key))
  IN  [i \in 1..Len(only) |-> Difference(kind, Arrow(path, only[i].key), <<>>)]

\* mutant: the second loop (keys in d2 but not d1) is left out
OneSided_noExtra(kind, d, other, path) ==
  LET only == SelectSeq(d.e, LAMBDA en : ~HasKey(other, en.key))
  IN  IF kind = "EXTRA KEY" THEN <<>>
      ELSE [i \in 1..Len(only) |-> Difference(kind, Arrow(path, only[i].key), <<>>)]

\* mutant: the ignore list is applied to the one-sided keys too
OneSided_skipsIgnored(kind, d, other, path) ==
  LET only == SelectSeq(d.e, LAMBDA en : ~HasKey(other, en.key) /\ en.key \notin IgnoredKeys)
  IN  [i \in 1..Len(only) |-> Difference(kind, Arrow(path, only[i].key), <<>>)]

\* the loop `for key in d1: if key not in d2: differences.append(...)`
OneSided(kind, d, other, path) ==
  LET only == SelectSeq(d.e, LAMBDA en : ~HasKey(other, en.key))
  IN  [i \in 1..Len(only) |-> Difference(kind, Arrow(path, only[i].key), <<>>)]

\* mutant: the membership test is inverted
Skip_inverted(key, ignore) == key \notin ignore

\* `if key in ['uri', 'credentials', 'passthroughBehavior']`, the list a parameter
Skip(key, ignore) == key \in ignore

\* mutant: the sequences are broken down, one record for each index at which
\* they differ ("0", "1": the index as a path segment)
ListBranch_perElement(val1, val2, current_path) ==
  LET n == IF Len(val1.e) < Len(val2.e) THEN Len(val1.e) ELSE Len(val2.e)
      differ == SelectSeq([i \in 1..n |-> i],
                          LAMBDA i : ~PyEq(val1.e[i].val, val2.e[i].val))
  IN  IF Len(val1.e) # Len(val2.e)
        THEN <<Difference("LIST MISMATCH", current_path, <<val1, val2>>)>>
        ELSE [j \in 1..Len(differ) |->
                Difference("VALUE MISMATCH",
                           Arrow(current_path, IF differ[j] = 1 THEN "0" ELSE "1"),
                           <<val1.e[differ[j]].val, val2.e[differ[j]].val>>)]

\* mutant: two sequences are taken as equal without being compared
ListBranch_silent(val1, val2, current_path) == <<>>

\* the branch `elif isinstance(val1, list) and isinstance(val2, list):`
ListBranch(val1, val2, current_path) ==
  IF ~PyEq(val1, val2)
    THEN <<Difference("LIST MISMATCH", current_path, <<val1, val2>>)>>
    ELSE <<>>

\* mutant: the values are compared only when neither is a dict or a list
ValueBranch_scalarsOnly(val1, val2, current_path) ==
  IF IsScalar(val1) /\ IsScalar(val2) /\ ~PyEq(val1, val2)
    THEN <<Difference("VALUE MISMATCH", current_path, <<val1, val2>>)>>
    ELSE <<>>

\* the branch `else: if val1 != val2:`
ValueBranch(val1, val2, current_path) ==
  IF ~PyEq(val1, val2)
    THEN <<Difference("VALUE MISMATCH", current_path, <<val1, val2>>)>>
    ELSE <<>>

\* compare_dicts of auditorProV3.py, its ignore list made a parameter: the
\* ignore test is the first arm of the if/elif chain.
RECURSIVE compare_dicts_ignoring(_, _, _, _)
compare_dicts_ignoring(a, b, path, ignore) ==
  LET ForKey(en) ==
        LET key == en.key
            val1 == en.val
            val2 == Get(b, key)
            current_path == Arrow(path, key)
        IN  IF ~HasKey(b, key) THEN <<>>
            ELSE IF Skip(key, ignore) THEN <<>>
            ELSE IF IsDict(val1) /\ IsDict(val2)
              THEN compare_dicts_ignoring(val1, val2, current_path, ignore)
            ELSE IF IsList(val1) /\ IsList(val2)
              THEN ListBranch(val1, val2, current_path)
            ELSE ValueBranch(val1, val2, current_path)
      common[i \in 0..Len(a.e)] ==
        IF i = 0 THEN <<>> ELSE common[i - 1] \o ForKey(a.e[i])
  IN  OneSided("MISSING KEY", a, b, path)
        \o OneSided("EXTRA KEY", b, a, path)
        \o common[Len(a.e)]

\* compare_dicts of auditorProV3.py
compare_dicts(a, b, path) == compare_dicts_ignoring(a, b, path, IgnoredKeys)

\* compare_dicts of diffV2.py: the ignore test is an `if` of its own whose body
\* is `pass`, and the type dispatch that follows is a fresh `if`, not an
\* `elif`: a key of the ignore list is compared like any other.
RECURSIVE compare_dicts_diffV2(_, _, _)
compare_dicts_diffV2(a, b, path) ==
  LET ForKey(en) ==
        LET key == en.key
            val1 == en.val
            val2 == Get(b, key)
            current_path == Arrow(path, key)
            pass == IF Skip(key, IgnoredKeys) THEN <<>> ELSE <<>>
        IN  IF ~HasKey(b, key) THEN <<>>
            ELSE pass \o
              (IF IsDict(val1) /\ IsDict(val2)
                 THEN compare_dicts_diffV2(val1, val2, current_path)
               ELSE IF IsList(val1) /\ IsList(val2)
                 THEN ListBranch(val1, val2, current_path)
               ELSE ValueBranch(val1, val2, current_path))
      common[i \in 0..Len(a.e)] ==
        IF i = 0 THEN <<>> ELSE common[i - 1] \o ForKey(a.e[i])
  IN  OneSided("MISSING KEY", a, b, path)
        \o OneSided("EXTRA KEY", b, a, path)
        \o common[Len(a.e)]

\* mutant: the path so far is not put before the key
OneSidedPaths_noPath(d, other, path) ==
  LET only == SelectSeq(d.e, LAMBDA en : ~HasKey(other, en.key))
  IN  [i \in 1..Len(only) |-> <<only[i].key>>]

\* the loops of compare_json_deep that fill diffs["missing"] and diffs["extra"]
OneSidedPaths(d, other, path) ==
  LET only == SelectSeq(d.e, LAMBDA en : ~HasKey(other, en.key))
  IN  [i \in 1..Len(only) |-> Dotted(path, only[i].key)]

NoDiffs == [missing |-> <<>>, extra |-> <<>>, changed |-> <<>>]

\* compare_json_deep of s3helper.py
RECURSIVE compare_json_deep(_, _, _)
compare_json_deep(src_json, tgt_json, path) ==
  LET ForKey(acc, en) ==
        LET key == en.key
            val_src == en.val
            val_tgt == Get(tgt_json, key)
            full_path == Dotted(path, key)
        IN  IF ~HasKey(tgt_json, key) THEN acc
            ELSE IF IsDict(val_src) /\ IsDict(val_tgt)
              THEN LET nested == compare_json_deep(val_src, val_tgt, full_path)
                   IN  [missing |-> acc.missing \o nested.missing,
                        extra   |-> acc.extra \o nested.extra,
                        changed |-> acc.changed \o nested.changed]
            ELSE IF ~PyEq(val_src, val_tgt)
              THEN [acc EXCEPT !.changed =
                      Append(@, [key |-> full_path, source |-> val_src, target |-> val_tgt])]
            ELSE acc
      loop[i \in 0..Len(src_json.e)] ==
        IF i = 0
          THEN [missing |-> OneSidedPaths(src_json, tgt_json, path),
                extra   |-> OneSidedPaths(tgt_json, src_json, path),
                changed |-> <<>>]
          ELSE ForKey(loop[i - 1], src_json.e[i])
  IN  loop[Len(src_json.e)]

----------------------------------------------------------------------------
(* normalize_integration: the projection of a method block of an API      *)
(* definition onto the fields of its integration block.                   *)

\* `d.get(key, default)`
GetOr(d, key, default) == IF HasKey(d, key) THEN Get(d, key) ELSE default

IntegrationKey == "x-amazon-apigateway-integration"

\* normalize_integration of diffV2.py and of auditorProV3.py (the same text)
normalize_integration(method_data) ==
  IF HasKey(method_data, IntegrationKey)
    THEN LET integ == Get(method_data, IntegrationKey)
         IN  Dict(<<Entry("type", GetOr(integ, "type", Null)),
                    Entry("uri", GetOr(integ, "uri", Null)),
                    Entry("httpMethod", GetOr(integ, "httpMethod", Null)),
                    Entry("timeoutInMillis", GetOr(integ, "timeoutInMillis", Null)),
                    Entry("requestParameters", GetOr(integ, "requestParameters", Null))>>)
    ELSE Dict(<<>>)

\* normalize_integration of apiGAtewayTab.py
normalize_integration_tab(method_data) ==
  IF ~HasKey(method_data, IntegrationKey) THEN Null
  ELSE LET integ == Get(method_data, IntegrationKey)
       IN  Dict(<<Entry("type", GetOr(integ, "type", Null)),
                  Entry("uri", GetOr(integ, "uri", Str(0))),
                  Entry("httpMethod", GetOr(integ, "httpMethod", Null)),
                  Entry("timeoutInMillis", GetOr(integ, "timeoutInMillis", Null)),
                  Entry("passthroughBehavior", GetOr(integ, "passthroughBehavior", Null)),
                  Entry("requestParameters", GetOr(integ, "requestParameters", Dict(<<>>))),
                  Entry("responses", GetOr(integ, "responses", Dict(<<>>)))>>)

----------------------------------------------------------------------------
(* normalize_policy_logic: json.dumps(sort_keys=True), two re.sub over the *)
(* text, json.loads, then the Statement list.  In a policy a string (a key *)
(* or a string value) is the sequence of its characters, Text(chars), and  *)
(* a number the sequence of the digits json.dumps writes for it.           *)
(* Neither pattern matches a double quote, a space or a bracket, so every  *)
(* match lies inside one string or number literal of the text: the         *)
(* substitution over the whole text is the substitution in every literal.  *)

Text(chars) == [k |-> "str", s |-> chars, e |-> <<>>]
Number(digits) == [k |-> "num", s |-> digits, e |-> <<>>]

Digit == {"0", "1", "2", "3", "4", "5", "6", "7", "8", "9"}
Lower == {"a", "b", "c", "d", "e", "f", "g", "h", "i", "j", "k", "l", "m",
          "n", "o", "p", "q", "r", "s", "t", "u", "v", "w", "x", "y", "z"}

\* r'\d{12}' and its replacement
AccountDigits == 12
ACCOUNT_ID == <<"{", "{", "A", "C", "C", "O", "U", "N", "T", "_", "I", "D", "}", "}">>

\* r'arn:aws:[a-z0-9-:]+:[a-z0-9-_\./]+' and its replacement
ArnHead == <<"a", "r", "n", ":", "a", "w", "s", ":">>
ArnFirst == Lower \cup Digit \cup {"-", ":"}
ArnSecond == Lower \cup Digit \cup {"-", "_", ".", "/"}
ARN_MASKED == <<"{", "{", "A", "R", "N", "_", "M", "A", "S", "K", "E", "D", "}", "}">>

\* the length of the longest run of characters of a class from s[i] on
RECURSIVE Run(_, _, _)
Run(s, i, class) ==
  IF i <= Len(s) /\ s[i] \in class THEN 1 + Run(s, i + 1, class) ELSE 0

\* re.sub(r'\d{12}', '{{ACCOUNT_ID}}', s) from s[i] on: the leftmost match,
\* then on behind it
RECURSIVE SubAccount(_, _)
SubAccount(s, i) ==
  IF i > Len(s) THEN <<>>
  ELSE IF /\ i + AccountDigits - 1 <= Len(s)
          /\ \A j \in i..(i + AccountDigits - 1) : s[j] \in Digit
    THEN ACCOUNT_ID \o SubAccount(s, i + AccountDigits)
    ELSE <<s[i]>> \o SubAccount(s, i + 1)

\* Where a match of the ARN pattern that starts at s[i] ends, 0 if there is
\* none.  The first class is greedy and holds ':' itself: it gives back
\* characters until a ':' followed by a character of the second class is
\* found; the second class then takes all it can.
ArnMatchEnd(s, i) ==
  IF i + Len(ArnHead) - 1 > Len(s) \/ SubSeq(s, i, i + Len(ArnHead) - 1) # ArnHead THEN 0
  ELSE LET from == i + Len(ArnHead)
           ks == {k \in 1..Run(s, from, ArnFirst) :
                    /\ from + k + 1 <= Len(s)
                    /\ s[from + k] = ":"
                    /\ s[from + k + 1] \in ArnSecond}
       IN  IF ks = {} THEN 0
           ELSE LET k == CHOOSE m \in ks : \A n \in ks : n <= m
                IN  from + k + Run(s, from + k + 1, ArnSecond)

\* re.sub(r'arn:aws:...', '{{ARN_MASKED}}', s) from s[i] on
RECURSIVE SubArn(_, _)
SubArn(s, i) ==
  IF i > Len(s) THEN <<>>
  ELSE LET end == ArnMatchEnd(s, i)
       IN  IF end > 0 THEN ARN_MASKED \o SubArn(s, end + 1)
           ELSE <<s[i]>> \o SubArn(s, i + 1)

\* the two substitutions, in the order the code makes them
Mask(s) == SubArn(SubAccount(s, 1), 1)

\* a list of a policy: the key of an element is the empty text
Array(items) == [k |-> "list", s |-> 0, e |-> [i \in 1..Len(items) |-> Entry(<<>>, items[i])]]

\* the characters that occur, in code point order: the order of sort_keys
Ascii ==
  <<"*", "-", ".", "/", "0", "1", "2", "3", "4", "5", "6", "7", "8", "9", ":",
    "A", "B", "C", "D", "E", "F", "G", "H", "I", "J", "K", "L", "M", "N", "O",
    "P", "Q", "R", "S", "T", "U", "V", "W", "X", "Y", "Z", "_",
    "a", "b", "c", "d", "e", "f", "g", "h", "i", "j", "k", "l", "m", "n", "o",
    "p", "q", "r", "s", "t", "u", "v", "w", "x", "y", "z", "{", "}">>
Code(c) == CHOOSE i \in 1..Len(Ascii) : Ascii[i] = c
RECURSIVE Before(_, _)
Before(a, b) ==
  IF b = <<>> THEN FALSE
  ELSE IF a = <<>> THEN TRUE
  ELSE IF Head(a) = Head(b) THEN Before(Tail(a), Tail(b))
  ELSE Code(Head(a)) < Code(Head(b))

\* sorted(d.items()): the entries in the order of their keys
RECURSIVE SortByKey(_)
SortByKey(entries) ==
  IF entries = <<>> THEN <<>>
  ELSE LET first == CHOOSE i \in 1..Len(entries) :
                      \A j \in 1..Len(entries) : ~Before(entries[j].key, entries[i].key)
       IN  <<entries[first]>>
             \o SortByKey(SelectSeq(entries, LAMBDA en : en.key # entries[first].key))

\* json.dumps(policy_json, sort_keys=True): the text, as the tree of its
\* literals, the keys of every mapping in sorted order
RECURSIVE dumps(_)
dumps(x) ==
  IF IsDict(x)
    THEN Dict(SortByKey([i \in 1..Len(x.e) |-> Entry(x.e[i].key, dumps(x.e[i].val))]))
  ELSE IF IsList(x)
    THEN Array([i \in 1..Len(x.e) |-> dumps(x.e[i].val)])
  ELSE x

\* the two re.sub over the text: over every key, string and number literal
RECURSIVE re_sub(_)
re_sub(x) ==
  IF IsDict(x) \/ IsList(x)
    THEN [x EXCEPT !.e = [i \in 1..Len(x.e) |-> Entry(Mask(x.e[i].key), re_sub(x.e[i].val))]]
  ELSE IF x.k \in {"str", "num"} THEN [x EXCEPT !.s = Mask(x.s)]
  ELSE x

\* the text is still JSON: a number literal a substitution has written into
\* is no number any more (json.loads raises JSONDecodeError)
RECURSIVE Decodable(_)
Decodable(x) ==
  IF IsDict(x) \/ IsList(x) THEN \A i \in 1..Len(x.e) : Decodable(x.e[i].val)
  ELSE x.k = "num" => \A i \in 1..Len(x.s) : x.s[i] \in Digit

\* json.loads builds a dict pair by pair: a key met again keeps its place and
\* takes the later value
RECURSIVE LoadPairs(_)
LoadPairs(pairs) ==
  IF pairs = <<>> THEN <<>>
  ELSE LET init == LoadPairs(SubSeq(pairs, 1, Len(pairs) - 1))
           last == pairs[Len(pairs)]
       IN  IF \E i \in 1..Len(init) : init[i].key = last.key
             THEN [i \in 1..Len(init) |-> IF init[i].key = last.key THEN last ELSE init[i]]
             ELSE Append(init, last)
RECURSIVE loads(_)
loads(x) ==
  IF IsDict(x)
    THEN Dict(LoadPairs([i \in 1..Len(x.e) |-> Entry(x.e[i].key, loads(x.e[i].val))]))
  ELSE IF IsList(x) THEN Array([i \in 1..Len(x.e) |-> loads(x.e[i].val)])
  ELSE x

\* `not policy_json`
Falsy(x) ==
  \/ x.k = "null"
  \/ x.k \in {"dict", "list"} /\ x.e = <<>>
  \/ x.k = "str" /\ x.s = <<>>
  \/ x.k = "num" /\ x.s = <<"0">>
  \/ x.k = "bool" /\ x.s = 0

Statement == <<"S", "t", "a", "t", "e", "m", "e", "n", "t">>

\* what a call comes to: the value returned, or the exception raised
Returned(val) == [exc |-> "", val |-> val]
Raise(exc) == [exc |-> exc, val |-> Null]

\* mutant: a Statement that is a single mapping is returned as it is
normalize_policy_logic_noWrap(policy_json) ==
  IF Falsy(policy_json) THEN Returned(Array(<<>>))
  ELSE LET s_str == re_sub(dumps(policy_json))
       IN  IF ~Decodable(s_str) THEN Raise("JSONDecodeError")
           ELSE LET clean_pol == loads(s_str)
                IN  IF ~IsDict(clean_pol) THEN Raise("AttributeError")
                    ELSE Returned(GetOr(clean_pol, Statement, Array(<<>>)))

\* mutant: the test `if not policy_json: return []` is missing
normalize_policy_logic_noGuard(policy_json) ==
  LET s_str == re_sub(dumps(policy_json))
  IN  IF ~Decodable(s_str) THEN Raise("JSONDecodeError")
      ELSE LET clean_pol == loads(s_str)
           IN  IF ~IsDict(clean_pol) THEN Raise("AttributeError")
               ELSE LET stmts == GetOr(clean_pol, Statement, Array(<<>>))
                    IN  Returned(IF IsDict(stmts) THEN Array(<<stmts>>) ELSE stmts)

\* normalize_policy_logic of auditorProV3.py and of offline_editor.py
normalize_policy_logic(policy_json) ==
  IF Falsy(policy_json) THEN Returned(Array(<<>>))
  ELSE LET s_str == re_sub(dumps(policy_json))
       IN  IF ~Decodable(s_str) THEN Raise("JSONDecodeError")
           ELSE LET clean_pol == loads(s_str)
                IN  IF ~IsDict(clean_pol) THEN Raise("AttributeError")
                    ELSE LET stmts == GetOr(clean_pol, Statement, Array(<<>>))
                         IN  Returned(IF IsDict(stmts) THEN Array(<<stmts>>) ELSE stmts)

----------------------------------------------------------------------------
(* The documents compared: every pair of trees of a bounded universe.     *)
(* Keys are non-empty and hold neither "->" nor ".".  The scalars are the  *)
(* numbers 1..MaxNum, True (which Python holds equal to 1), the string "1" *)
(* and null.  A document is a mapping of up to two entries, in either      *)
(* insertion order, nested up to three mappings deep, with lists (of       *)
(* scalars and of mappings) at the first and second level.                 *)

\* the numbers that occur as scalars
MaxNum == 2

KeyOrder == <<"a", "b", "uri">>
Keys == {KeyOrder[i] : i \in 1..Len(KeyOrder)}

Nums == {Num(n) : n \in 1..MaxNum}
Scalars == Nums \cup {Bool(TRUE), Str(1), Null}

\* dicts of one entry, and of two entries in either insertion order
Maps1(keys, vals) == {Dict(<<Entry(key, v)>>) : key \in keys, v \in vals}
Maps2(keys, vals) ==
  {Dict(<<Entry(p[1], v), Entry(p[2], w)>>) :
     p \in {q \in keys \X keys : q[1] # q[2]}, v \in vals, w \in vals}

ListElems ==
  {Num(1), Dict(<<Entry("a", Num(1))>>), Dict(<<Entry("a", Num(2))>>),
   Dict(<<Entry("a", Num(1)), Entry("uri", Num(1))>>),
   Dict(<<Entry("uri", Num(1)), Entry("a", Num(1))>>)}
PairElems == {Num(1), Dict(<<Entry("a", Num(1))>>)}
Lists == {List(<<>>)} \cup {List(<<x>>) : x \in ListElems}
           \cup {List(<<x, y>>) : x \in PairElems, y \in PairElems}

Deep == {Dict(<<>>)} \cup Maps1({"a", "uri"}, {Num(1), Dict(<<>>)})
NestedLists ==
  {List(<<>>), List(<<Num(1)>>), List(<<Dict(<<Entry("a", Num(1))>>)>>),
   List(<<Dict(<<Entry("a", Num(2))>>)>>)}
Inner == Deep \cup Maps1(Keys, Nums \cup Deep) \cup Maps2({"a", "uri"}, Nums)
           \cup Maps1({"a"}, NestedLists)
Values == Scalars \cup Lists \cup Inner
Trees == {Dict(<<>>)} \cup Maps1({"a", "uri"}, Values)
           \cup Maps2(Keys, {Num(1), Num(2), Dict(<<>>),
                             Dict(<<Entry("a", Num(1))>>), Dict(<<Entry("a", Num(2))>>)})

----------------------------------------------------------------------------
(* One comparison: the two documents are given, then one of the three     *)
(* functions is called on them with the default path "".  A call whose     *)
(* argument is None does not return: `for key in d1` and `key not in d2`   *)
(* raise TypeError on None, and at least one of the two is evaluated       *)
(* before anything is appended (the first loop runs over d1, the second    *)
(* over d2, whatever the other argument holds).                            *)

\* `for key in d1` / `if key not in d2` raises TypeError
Raises(a, b) == a = Null \/ b = Null
Raised == {"auditorProV3: TypeError", "diffV2: TypeError", "s3helper: TypeError"}

\* no API definition and no bucket document has been loaded
ApiIdle ==
  /\ dev_details = Dict(<<>>)
  /\ local_details = Dict(<<>>)
  /\ dev_integ = Dict(<<>>)
  /\ local_integ = Dict(<<>>)
S3Idle ==
  /\ d_policy = Null
  /\ s_policy = Null
  /\ p_dev = List(<<>>)
  /\ p_stg = List(<<>>)
  /\ missing = <<>>
\* no call of the diff is under way, no API definition and no task
\* definition has been loaded
StackIdle == stack = <<>>
GatewayIdle ==
  /\ dev_json = Dict(<<>>)
  /\ local_json = Dict(<<>>)
  /\ issues_found = 0
  /\ ui_rows = <<>>
  /\ report_lines = <<>>
EcsIdle ==
  /\ c_dev = [environment |-> <<>>, secrets |-> <<>>]
  /\ c_stg = [environment |-> <<>>, secrets |-> <<>>]
  /\ region_context = ""
  /\ rows = <<>>
DashIdle == StackIdle /\ GatewayIdle /\ EcsIdle

Init ==
  /\ d1 \in Trees
  /\ d2 \in Trees
  /\ pc = "loaded"
  /\ differences = <<>>
  /\ diffs = NoDiffs
  /\ ApiIdle
  /\ S3Idle
  /\ DashIdle
  /\ st = <<>>

\* mutant: the result list is shared between the calls (a mutable default
\* argument, a module-level list) instead of being created by each call
CallCompareDicts_sharedList ==
  /\ pc = "loaded"
  /\ IF Raises(d1, d2)
       THEN pc' = "auditorProV3: TypeError" /\ UNCHANGED differences
       ELSE differences' = differences \o compare_dicts(d1, d2, <<>>) /\ pc' = "auditorProV3"
  /\ UNCHANGED <<d1, d2, diffs, apiVars, s3Vars, dashVars, st>>

CallCompareDicts ==
  /\ pc = "loaded"
  /\ IF Raises(d1, d2)
       THEN pc' = "auditorProV3: TypeError" /\ UNCHANGED differences
       ELSE differences' = compare_dicts(d1, d2, <<>>) /\ pc' = "auditorProV3"
  /\ UNCHANGED <<d1, d2, diffs, apiVars, s3Vars, dashVars, st>>

CallCompareDictsDiffV2 ==
  /\ pc = "loaded"
  /\ IF Raises(d1, d2)
       THEN pc' = "diffV2: TypeError" /\ UNCHANGED differences
       ELSE differences' = compare_dicts_diffV2(d1, d2, <<>>) /\ pc' = "diffV2"
  /\ UNCHANGED <<d1, d2, diffs, apiVars, s3Vars, dashVars, st>>

CallCompareJsonDeep ==
  /\ pc = "loaded"
  /\ IF Raises(d1, d2)
       THEN pc' = "s3helper: TypeError" /\ UNCHANGED diffs
       ELSE diffs' = compare_json_deep(d1, d2, <<>>) /\ pc' = "s3helper"
  /\ UNCHANGED <<d1, d2, differences, apiVars, s3Vars, dashVars, st>>

Next == CallCompareDicts \/ CallCompareDictsDiffV2 \/ CallCompareJsonDeep

Spec == Init /\ [][Next]_vars

\* Calls in a row, as the loops of the dashboards make them: after a call the
\* caller goes on to the next pair of documents, still holding what the
\* earlier calls returned, and calls again.
RepeatTrees ==
  {Dict(<<>>), Dict(<<Entry("a", Num(1))>>), Dict(<<Entry("a", Num(2))>>),
   Dict(<<Entry("a", Dict(<<Entry("b", Num(1))>>))>>),
   Dict(<<Entry("a", List(<<Num(1)>>)), Entry("b", Num(1))>>),
   Dict(<<Entry("uri", Num(1)), Entry("a", Dict(<<>>))>>)}

InitRepeat ==
  /\ d1 \in RepeatTrees
  /\ d2 \in RepeatTrees
  /\ pc = "loaded"
  /\ differences = <<>>
  /\ diffs = NoDiffs
  /\ ApiIdle
  /\ S3Idle
  /\ DashIdle
  /\ st = <<>>

LoadNext ==
  /\ pc \in {"auditorProV3", "diffV2", "s3helper"}
  /\ d1' \in RepeatTrees
  /\ d2' \in RepeatTrees
  /\ pc' = "loaded"
  /\ UNCHANGED <<differences, diffs, apiVars, s3Vars, dashVars, st>>

NextRepeat == Next \/ LoadNext

SpecRepeat == InitRepeat /\ [][NextRepeat]_vars

\* The method blocks of an API definition: without an integration block
\* (empty, or holding other keys only) and with one, each field of which is
\* absent or holds one of a few values.
Absent == [k |-> "absent", s |-> 0, e |-> <<>>]
Integration(fields) ==
  Dict(SelectSeq(fields, LAMBDA en : en.val # Absent))
Integrations ==
  {Integration(<<Entry("type", t), Entry("uri", u), Entry("httpMethod", h),
                 Entry("timeoutInMillis", m), Entry("requestParameters", r)>>) :
     t \in {Absent, Str(1)}, u \in {Absent, Str(1), Str(2)}, h \in {Absent, Str(1)},
     m \in {Absent} \cup Nums,
     r \in {Absent, Dict(<<>>), Dict(<<Entry("a", Str(1))>>)}}
MethodBlocks ==
  {Dict(<<>>), Dict(<<Entry("responses", Dict(<<>>))>>)}
    \cup {Dict(<<Entry(IntegrationKey, g)>>) : g \in Integrations}
    \cup {Dict(<<Entry("responses", Dict(<<>>)), Entry(IntegrationKey, Dict(<<>>))>>)}

\* One method of one path, held by both API definitions: its two blocks are
\* normalized and the integrations compared under the path "Integration".
InitIntegration ==
  /\ dev_details \in MethodBlocks
  /\ local_details \in MethodBlocks
  /\ dev_integ = Dict(<<>>)
  /\ local_integ = Dict(<<>>)
  /\ pc = "methods"
  /\ d1 = Dict(<<>>)
  /\ d2 = Dict(<<>>)
  /\ differences = <<>>
  /\ diffs = NoDiffs
  /\ S3Idle
  /\ DashIdle
  /\ st = <<>>

NormalizeIntegration ==
  /\ pc = "methods"
  /\ dev_integ' = normalize_integration(dev_details)
  /\ local_integ' = normalize_integration(local_details)
  /\ pc' = "normalized"
  /\ UNCHANGED <<d1, d2, differences, diffs, dev_details, local_details, s3Vars, dashVars, st>>

NormalizeIntegrationTab ==
  /\ pc = "methods"
  /\ dev_integ' = normalize_integration_tab(dev_details)
  /\ local_integ' = normalize_integration_tab(local_details)
  /\ pc' = "apiGAtewayTab"
  /\ UNCHANGED <<d1, d2, differences, diffs, dev_details, local_details, s3Vars, dashVars, st>>

CompareIntegrations ==
  /\ pc = "normalized"
  /\ differences' = compare_dicts(dev_integ, local_integ, <<"Integration">>)
  /\ pc' = "auditorProV3: Integration"
  /\ UNCHANGED <<d1, d2, diffs, apiVars, s3Vars, dashVars, st>>

CompareIntegrationsDiffV2 ==
  /\ pc = "normalized"
  /\ differences' = compare_dicts_diffV2(dev_integ, local_integ, <<"Integration">>)
  /\ pc' = "diffV2: Integration"
  /\ UNCHANGED <<d1, d2, diffs, apiVars, s3Vars, dashVars, st>>

NextIntegration ==
  \/ NormalizeIntegration
  \/ NormalizeIntegrationTab
  \/ CompareIntegrations
  \/ CompareIntegrationsDiffV2

SpecIntegration == InitIntegration /\ [][NextIntegration]_vars

\* The bucket policies: absent (null), empty, without a Statement, with a
\* Statement that is one mapping, and with a list of none, one or two.  A
\* Resource is an account ID, an ARN without an account (lower and upper case
\* bucket names), an ARN that ends in an account ID, an ARN with an account
\* ID in the middle, or "*"; one statement has an account ID as a key.
Account(d) == [i \in 1..AccountDigits |-> d]
S3Arn(name) == ArnHead \o <<"s", "3", ":", ":", ":">> \o name
IamArn(d, name) ==
  ArnHead \o <<"i", "a", "m", ":", ":">> \o Account(d) \o <<":", "r", "o", "l", "e", "/">> \o name
Resources ==
  {Text(Account(d)) : d \in {"1", "2"}}
    \cup {Text(S3Arn(n)) : n \in {<<"b">>, <<"c">>, <<"B">>}}
    \cup {Text(S3Arn(<<"b", "-">> \o Account(d))) : d \in {"1", "2"}}
    \cup {Text(IamArn(d, n)) : d \in {"1", "2"}, n \in {<<"a">>, <<"b">>}}
    \cup {Text(<<"*">>)}
Action == <<"A", "c", "t", "i", "o", "n">>
Resource == <<"R", "e", "s", "o", "u", "r", "c", "e">>
Version == <<"V", "e", "r", "s", "i", "o", "n">>
Get_ == Text(<<"g", "e", "t">>)
Put_ == Text(<<"p", "u", "t">>)
Statements ==
  {Dict(<<Entry(Resource, r), Entry(Action, Get_)>>) : r \in Resources}
    \cup {Dict(<<Entry(Action, Put_), Entry(Resource, Text(<<"*">>))>>)}
    \cup {Dict(<<Entry(Account(d), Get_)>>) : d \in {"1", "2"}}
PairStatements ==
  {Dict(<<Entry(Resource, r), Entry(Action, Get_)>>) :
     r \in {Text(Account("1")), Text(S3Arn(<<"b">>)), Text(<<"*">>)}}
Policies ==
  {Null, Dict(<<>>), Dict(<<Entry(Version, Text(<<"1">>))>>)}
    \cup {Dict(<<Entry(Statement, s)>>) : s \in Statements}
    \cup {Dict(<<Entry(Version, Text(<<"1">>)), Entry(Statement, Array(<<s>>))>>) :
            s \in Statements}
    \cup {Dict(<<Entry(Statement, Array(<<s, t>>))>>) :
            s \in PairStatements, t \in PairStatements}
    \cup {Dict(<<Entry(Statement, Array(<<>>))>>)}

\* render_s3_dashboard: the Policy of the two bucket documents is normalized
\* and the statements of the source are looked up in the target's.
InitPolicy ==
  /\ d_policy \in Policies
  /\ s_policy \in Policies
  /\ p_dev = Array(<<>>)
  /\ p_stg = Array(<<>>)
  /\ missing = <<>>
  /\ pc = "buckets"
  /\ d1 = Dict(<<>>)
  /\ d2 = Dict(<<>>)
  /\ differences = <<>>
  /\ diffs = NoDiffs
  /\ ApiIdle
  /\ DashIdle
  /\ st = <<>>

RaisedBy(call, exc) ==
  CASE call = "p_dev" /\ exc = "JSONDecodeError" -> "p_dev: JSONDecodeError"
    [] call = "p_dev" /\ exc = "AttributeError" -> "p_dev: AttributeError"
    [] call = "p_stg" /\ exc = "JSONDecodeError" -> "p_stg: JSONDecodeError"
    [] call = "p_stg" /\ exc = "AttributeError" -> "p_stg: AttributeError"
    [] call = "again" /\ exc = "JSONDecodeError" -> "again: JSONDecodeError"
    [] call = "again" /\ exc = "AttributeError" -> "again: AttributeError"

NormalizePolicies ==
  /\ pc = "buckets"
  /\ LET dev == normalize_policy_logic(d_policy)
         stg == normalize_policy_logic(s_policy)
     IN  IF dev.exc # ""
           THEN pc' = RaisedBy("p_dev", dev.exc) /\ UNCHANGED <<p_dev, p_stg>>
         ELSE IF stg.exc # ""
           THEN pc' = RaisedBy("p_stg", stg.exc) /\ p_dev' = dev.val /\ UNCHANGED p_stg
         ELSE pc' = "normalized" /\ p_dev' = dev.val /\ p_stg' = stg.val
  /\ UNCHANGED <<d1, d2, differences, diffs, apiVars, d_policy, s_policy, missing, dashVars, st>>

\* `p not in p_stg`
NotIn(p, list) == \A i \in 1..Len(list.e) : ~PyEq(p, list.e[i].val)

\* a call of st.success, st.error, st.markdown: the message, and the number
\* or the value it is formatted with
Shown(call, text, arg) == [call |-> call, text |-> text, arg |-> arg]

\* `if not missing: st.success(...) else: st.error(...); for m in missing: ...`
ShowPolicies(absent) ==
  IF absent = <<>>
    THEN <<Shown("st.success", "Policies Match Semantically", 0)>>
    ELSE <<Shown("st.error", "Permissions MISSING in Target", Len(absent))>>
           \o [i \in 1..Len(absent) |->
                 Shown("st.markdown", "Missing:", GetOr(absent[i], Action, Null))]

\* mutant: the statements of the target that the source lacks are listed too
ComparePolicies_bothWays ==
  /\ pc = "normalized"
  /\ missing' = SelectSeq([i \in 1..Len(p_dev.e) |-> p_dev.e[i].val],
                          LAMBDA p : NotIn(p, p_stg))
                  \o SelectSeq([i \in 1..Len(p_stg.e) |-> p_stg.e[i].val],
                               LAMBDA p : NotIn(p, p_dev))
  /\ st' = ShowPolicies(missing')
  /\ pc' = "policies compared"
  /\ UNCHANGED <<d1, d2, differences, diffs, apiVars, d_policy, s_policy, p_dev, p_stg, dashVars>>

\* missing = [p for p in p_dev if p not in p_stg], and what is shown for it
ComparePolicies ==
  /\ pc = "normalized"
  /\ missing' = SelectSeq([i \in 1..Len(p_dev.e) |-> p_dev.e[i].val],
                          LAMBDA p : NotIn(p, p_stg))
  /\ st' = ShowPolicies(missing')
  /\ pc' = "policies compared"
  /\ UNCHANGED <<d1, d2, differences, diffs, apiVars, d_policy, s_policy, p_dev, p_stg, dashVars>>

\* normalize_policy_logic called on what it returned for the source policy
NormalizeAgain ==
  /\ pc = "normalized"
  /\ LET again == normalize_policy_logic(p_dev)
     IN  IF again.exc # ""
           THEN pc' = RaisedBy("again", again.exc) /\ UNCHANGED p_dev
           ELSE pc' = "normalized again" /\ p_dev' = again.val
  /\ UNCHANGED <<d1, d2, differences, diffs, apiVars, d_policy, s_policy, p_stg, missing, dashVars, st>>

NextPolicy == NormalizePolicies \/ ComparePolicies \/ NormalizeAgain

SpecPolicy == InitPolicy /\ [][NextPolicy]_vars

\* Bucket policies that hold bare numbers: a Condition on the epoch time, in
\* seconds (10 digits) and in milliseconds (13 digits), a number of exactly
\* 12 digits, a small one; one statement or a list of one, and a number
\* outside the Statement.
Condition == <<"C", "o", "n", "d", "i", "t", "i", "o", "n">>
EpochTime == <<"a", "w", "s", ":", "E", "p", "o", "c", "h", "T", "i", "m", "e">>
Numbers ==
  {Number(<<"1">>),
   Number(<<"1", "7", "0", "0", "0", "0", "0", "0", "0", "0">>),
   Number(Account("1")),
   Number(<<"1", "7", "0", "0", "0", "0", "0", "0", "0", "0", "0", "0", "0">>)}
NumberStatements ==
  {Dict(<<Entry(Action, Get_), Entry(Condition, Dict(<<Entry(EpochTime, n)>>))>>) :
     n \in Numbers}
NumberPolicies ==
  {Dict(<<Entry(Statement, Array(<<s>>))>>) : s \in NumberStatements}
    \cup {Dict(<<Entry(Statement, s)>>) : s \in NumberStatements}
    \cup {Dict(<<Entry(Version, n), Entry(Statement, Array(<<>>))>>) : n \in Numbers}

InitNumbers ==
  /\ d_policy \in NumberPolicies
  /\ s_policy \in NumberPolicies
  /\ p_dev = Array(<<>>)
  /\ p_stg = Array(<<>>)
  /\ missing = <<>>
  /\ pc = "buckets"
  /\ d1 = Dict(<<>>)
  /\ d2 = Dict(<<>>)
  /\ differences = <<>>
  /\ diffs = NoDiffs
  /\ ApiIdle
  /\ DashIdle
  /\ st = <<>>

SpecNumbers == InitNumbers /\ [][NextPolicy]_vars

\* the same calls, one of the two documents (or both) being null
InitNullSide ==
  /\ d1 \in Trees \cup {Null}
  /\ d2 \in Trees \cup {Null}
  /\ Raises(d1, d2)
  /\ pc = "loaded"
  /\ differences = <<>>
  /\ diffs = NoDiffs
  /\ ApiIdle
  /\ S3Idle
  /\ DashIdle
  /\ st = <<>>

SpecNullSide == InitNullSide /\ [][Next]_vars

----------------------------------------------------------------------------
(* The recursion of the diff, call by call.  A frame is one call that has  *)
(* not returned: the function, its two arguments and its path, the number  *)
(* of keys of the third loop (the common keys) it has gone through, and    *)
(* the differences it has collected: the list `differences` of             *)
(* compare_dicts, the dict `diffs` of compare_json_deep (the one the       *)
(* function does not have stays empty).  The top of the stack is its last  *)
(* element.  A call runs its first two loops when it is entered; a pass of *)
(* the third loop either handles the key in the frame or makes the nested  *)
(* call; a call whose third loop is over returns to its caller, which adds *)
(* the result to its own and goes on with the next key.                    *)

\* mutant: the nested call is made as soon as the left value is a mapping
BothMappings_leftOnly(val1, val2) == IsDict(val1)

\* `isinstance(val1, dict) and isinstance(val2, dict)`
BothMappings(val1, val2) == IsDict(val1) /\ IsDict(val2)

\* f"{path}->{key}" in compare_dicts, f"{path}.{key}" if path else key in
\* compare_json_deep
PathTo(fn, path, key) == IF fn = "auditorProV3" THEN Arrow(path, key) ELSE Dotted(path, key)

\* the frame of a call that has run its first two loops
Frame(fn, a, b, path) ==
  [fn |-> fn, a |-> a, b |-> b, path |-> path, i |-> 0,
   differences |-> IF fn = "auditorProV3"
                     THEN OneSided("MISSING KEY", a, b, path)
                            \o OneSided("EXTRA KEY", b, a, path)
                     ELSE <<>>,
   diffs |-> IF fn = "auditorProV3" THEN NoDiffs
             ELSE [missing |-> OneSidedPaths(a, b, path),
                   extra   |-> OneSidedPaths(b, a, path),
                   changed |-> <<>>]]

Top == stack[Len(stack)]
\* the key the third loop of the top frame is at, and its two values
NextKey == Top.a.e[Top.i + 1].key
Val1 == Top.a.e[Top.i + 1].val
Val2 == Get(Top.b, NextKey)

\* the pass of the third loop makes the nested call: the key is common, not
\* ignored (compare_dicts only), and both values are mappings
Nests ==
  /\ HasKey(Top.b, NextKey)
  /\ Top.fn = "auditorProV3" => ~Skip(NextKey, IgnoredKeys)
  /\ BothMappings(Val1, Val2)

\* the frame after a pass that makes no nested call
Handled(frame, key, val1, val2) ==
  LET current_path == PathTo(frame.fn, frame.path, key)
      next == [frame EXCEPT !.i = @ + 1]
  IN  IF ~HasKey(frame.b, key) THEN next
      ELSE IF frame.fn = "auditorProV3"
        THEN IF Skip(key, IgnoredKeys) THEN next
             ELSE IF IsList(val1) /\ IsList(val2)
               THEN [next EXCEPT !.differences = @ \o ListBranch(val1, val2, current_path)]
             ELSE [next EXCEPT !.differences = @ \o ValueBranch(val1, val2, current_path)]
      ELSE IF ~PyEq(val1, val2)
        THEN [next EXCEPT !.diffs.changed =
                Append(@, [key |-> current_path, source |-> val1, target |-> val2])]
      ELSE next

\* the caller's frame after differences.extend(...) /
\* diffs[...].extend(nested[...])
Extended(caller, nested) ==
  [caller EXCEPT !.i = @ + 1,
                 !.differences = @ \o nested.differences,
                 !.diffs = [missing |-> @.missing \o nested.diffs.missing,
                            extra   |-> @.extra \o nested.diffs.extra,
                            changed |-> @.changed \o nested.diffs.changed]]

\* Documents up to four mappings deep, with values of every kind beside the
\* nested mappings: scalars, lists of mappings, ignored keys.
StepTrees ==
  {Dict(<<>>),
   Dict(<<Entry("a", Num(1))>>),
   Dict(<<Entry("a", Dict(<<>>))>>),
   Dict(<<Entry("a", Dict(<<Entry("a", Num(1))>>))>>),
   Dict(<<Entry("a", Dict(<<Entry("a", Dict(<<>>))>>))>>),
   Dict(<<Entry("a", Dict(<<Entry("a", Dict(<<Entry("a", Num(2))>>))>>))>>),
   Dict(<<Entry("a", Dict(<<Entry("a", Dict(<<Entry("a", Dict(<<>>))>>))>>))>>),
   Dict(<<Entry("a", List(<<Dict(<<Entry("a", Num(1))>>)>>))>>),
   Dict(<<Entry("uri", Dict(<<Entry("a", Num(1))>>))>>),
   Dict(<<Entry("uri", Dict(<<Entry("a", Dict(<<>>))>>))>>),
   Dict(<<Entry("a", Dict(<<Entry("b", Num(1))>>)), Entry("b", Dict(<<Entry("a", Num(1))>>))>>),
   Dict(<<Entry("b", Dict(<<Entry("a", Dict(<<>>))>>)), Entry("a", Dict(<<Entry("b", Num(2))>>))>>),
   Dict(<<Entry("a", Dict(<<Entry("uri", Dict(<<Entry("a", Num(1))>>))>>))>>),
   Dict(<<Entry("a", Dict(<<Entry("uri", Dict(<<Entry("a", Num(2))>>))>>))>>)}

InitSteps ==
  /\ d1 \in StepTrees
  /\ d2 \in StepTrees
  /\ pc = "loaded"
  /\ differences = <<>>
  /\ diffs = NoDiffs
  /\ ApiIdle
  /\ S3Idle
  /\ DashIdle
  /\ st = <<>>

stepVars ==
  <<d1, d2, apiVars, s3Vars, gatewayVars, ecsVars, st>>

\* compare_dicts(d1, d2) / compare_json_deep(src_json, tgt_json) is called
Call ==
  /\ pc = "loaded"
  /\ \E fn \in {"auditorProV3", "s3helper"} : stack' = <<Frame(fn, d1, d2, <<>>)>>
  /\ pc' = "running"
  /\ UNCHANGED <<differences, diffs, stepVars>>

\* one pass of `for key in d1: if key in d2: ...` that makes no nested call
Iterate ==
  /\ pc = "running"
  /\ Top.i < Len(Top.a.e)
  /\ ~Nests
  /\ stack' = [stack EXCEPT ![Len(stack)] =
                 Handled(Top, NextKey, Val1, IF HasKey(Top.b, NextKey) THEN Val2 ELSE Null)]
  /\ UNCHANGED <<pc, differences, diffs, stepVars>>

\* compare_dicts(val1, val2, current_path) /
\* compare_json_deep(val_src, val_tgt, full_path)
Recurse ==
  /\ pc = "running"
  /\ Top.i < Len(Top.a.e)
  /\ Nests
  /\ stack' = Append(stack, Frame(Top.fn, Val1, Val2, PathTo(Top.fn, Top.path, NextKey)))
  /\ UNCHANGED <<pc, differences, diffs, stepVars>>

\* `return differences` / `return diffs` of a nested call: the caller extends
\* its own result and goes on to its next key
Return ==
  /\ pc = "running"
  /\ Len(stack) > 1
  /\ Top.i = Len(Top.a.e)
  /\ stack' = [SubSeq(stack, 1, Len(stack) - 1) EXCEPT ![Len(stack) - 1] =
                 Extended(stack[Len(stack) - 1], Top)]
  /\ UNCHANGED <<pc, differences, diffs, stepVars>>

\* `return differences` / `return diffs` of the first call
ReturnResult ==
  /\ pc = "running"
  /\ Len(stack) = 1
  /\ Top.i = Len(Top.a.e)
  /\ IF Top.fn = "auditorProV3"
       THEN differences' = Top.differences /\ UNCHANGED diffs
       ELSE diffs' = Top.diffs /\ UNCHANGED differences
  /\ pc' = Top.fn
  /\ stack' = <<>>
  /\ UNCHANGED stepVars

NextSteps == Call \/ Iterate \/ Recurse \/ Return \/ ReturnResult

\* a call that has been made runs on until it returns: nothing else is
\* scheduled between its steps
SpecSteps == InitSteps /\ [][NextSteps]_vars /\ WF_vars(NextSteps)

----------------------------------------------------------------------------
(* The API dashboard: render_api_dashboard_strict of auditorProV3.py, and  *)
(* the loops it was taken from, main of diffV2.py and main of              *)
(* AWSGatewayDiff.py.  An API definition maps 'paths' to a mapping from    *)
(* path to a mapping from method to method block.  A line of the report    *)
(* and a cell of a row are sequences of the pieces of their f-string; a    *)
(* line that prints a difference holds the difference.                     *)

\* sorted(dev_paths.keys()): the paths that occur, in their sorted order
PathOrder == <<"/a", "/b">>
Sorted(keys) == SelectSeq(PathOrder, LAMBDA p : p \in keys)

\* method.upper()
Upper(method) ==
  CASE method = "get" -> "GET"
    [] method = "post" -> "POST"
    [] OTHER -> method

ReportLine(text) == [text |-> text, d |-> <<>>, n |-> 0]
\* f"   - {d}"
DiffLine(d) == [text |-> <<"   - ">>, d |-> <<d>>, n |-> 0]
Header ==
  <<ReportLine(<<"========================================================">>),
    ReportLine(<<" AWS API GATEWAY AUDIT REPORT">>),
    ReportLine(<<" Generated: ">>),
    ReportLine(<<"========================================================">>)>>
PerfectMatch == ReportLine(<<"RESULT: Perfect Match! No configuration differences found.">>)
Found(n) == [text |-> <<"RESULT: Found ", " issues that need attention.">>, d |-> <<>>, n |-> n]

\* diffs[0].split('\n')[0]: the first line of a difference string, which for
\* a value or list mismatch stops before the values
FirstLine(r) ==
  <<r.kind, " at ">> \o r.path \o
    (CASE r.kind = "MISSING KEY" -> <<": Present in Dev, Missing in Local">>
       [] r.kind = "EXTRA KEY" -> <<": Missing in Dev, Present in Local">>
       [] OTHER -> <<>>)

UiRow(path, issue, detail) == [Path |-> path, Issue |-> issue, Detail |-> detail]

\* the branch `if path not in local_paths:`
MissingPath(acc, path) ==
  [issues_found |-> acc.issues_found + 1,
   ui_rows |-> Append(acc.ui_rows,
                 UiRow(path, <<"Entire Path Missing">>, <<"Missing in Target">>)),
   report_lines |-> acc.report_lines \o
     <<ReportLine(<<"[MISSING PATH] ", path>>),
       ReportLine(<<"   Action: This entire endpoint is missing in Local.">>)>>]

\* the branch `if method not in local_methods:`
MissingMethod(acc, path, method) ==
  [issues_found |-> acc.issues_found + 1,
   ui_rows |-> Append(acc.ui_rows,
                 UiRow(path, <<"Method ", Upper(method), " Missing">>,
                       <<"Method missing in Target">>)),
   report_lines |-> acc.report_lines \o
     <<ReportLine(<<"[MISSING METHOD] ", path, " [", Upper(method), "]">>),
       ReportLine(<<"   Action: The path exists, but ", Upper(method), " is missing.">>)>>]

\* mutant: every difference of the method is counted and given a row
Mismatch_perDifference(acc, path, method, found) ==
  [issues_found |-> acc.issues_found + Len(found),
   ui_rows |-> acc.ui_rows \o
     [i \in 1..Len(found) |->
        UiRow(path, <<Upper(method), " Mismatch">>, FirstLine(found[i]))],
   report_lines |-> acc.report_lines \o
     <<ReportLine(<<"[MISMATCH] ", path, " [", Upper(method), "]">>)>> \o
     [i \in 1..Len(found) |-> DiffLine(found[i])] \o <<ReportLine(<<"">>)>>]

\* the branch `if diffs:`
Mismatch(acc, path, method, found) ==
  [issues_found |-> acc.issues_found + 1,
   ui_rows |-> Append(acc.ui_rows,
                 UiRow(path, <<Upper(method), " Mismatch">>, FirstLine(found[1]))),
   report_lines |-> acc.report_lines \o
     <<ReportLine(<<"[MISMATCH] ", path, " [", Upper(method), "]">>)>> \o
     [i \in 1..Len(found) |-> DiffLine(found[i])] \o <<ReportLine(<<"">>)>>]

\* The compare_dicts of the file that calls it.
CompareIn(file, a, b, path) ==
  IF file = "diffV2" THEN compare_dicts_diffV2(a, b, path) ELSE compare_dicts(a, b, path)

\* The loops over the paths of Dev and, for a path that Local holds too, over
\* its methods, in auditorProV3.py or in diffV2.py.
AuditPaths(dev, local, file) ==
  LET dev_paths == GetOr(dev, "paths", Dict(<<>>))
      local_paths == GetOr(local, "paths", Dict(<<>>))
      all_paths == Sorted(KeysOf(dev_paths))
      ForMethod(acc, path, method, details, local_methods) ==
        IF ~HasKey(local_methods, method) THEN MissingMethod(acc, path, method)
        ELSE LET found == CompareIn(file, normalize_integration(details),
                                    normalize_integration(Get(local_methods, method)),
                                    <<"Integration">>)
             IN  IF found # <<>> THEN Mismatch(acc, path, method, found) ELSE acc
      ForPath(acc, path) ==
        IF ~HasKey(local_paths, path) THEN MissingPath(acc, path)
        ELSE LET dev_methods == Get(dev_paths, path)
                 local_methods == Get(local_paths, path)
                 methods[j \in 0..Len(dev_methods.e)] ==
                   IF j = 0 THEN acc
                   ELSE ForMethod(methods[j - 1], path, dev_methods.e[j].key,
                                  dev_methods.e[j].val, local_methods)
             IN  methods[Len(dev_methods.e)]
      paths[i \in 0..Len(all_paths)] ==
        IF i = 0 THEN [issues_found |-> 0, ui_rows |-> <<>>, report_lines |-> Header]
        ELSE ForPath(paths[i - 1], all_paths[i])
      done == paths[Len(all_paths)]
  IN  [done EXCEPT !.report_lines =
         Append(@, IF done.issues_found = 0 THEN PerfectMatch ELSE Found(done.issues_found))]

\* Method blocks: without an integration, and with one; the second differs
\* from the first in the ignored uri only, the third in two other fields.
ApiBlocks ==
  <<Dict(<<>>),
    Dict(<<Entry(IntegrationKey, Dict(<<Entry("uri", Str(1)), Entry("timeoutInMillis", Num(1))>>))>>),
    Dict(<<Entry(IntegrationKey, Dict(<<Entry("uri", Str(2)), Entry("timeoutInMillis", Num(1))>>))>>),
    Dict(<<Entry(IntegrationKey, Dict(<<Entry("type", Str(1)), Entry("uri", Str(1)),
                                        Entry("timeoutInMillis", Num(2))>>))>>)>>
\* the methods of "/a": get and post, each absent or with one of the blocks
MethodsA ==
  {Dict(SelectSeq(<<Entry("get", g), Entry("post", p)>>, LAMBDA en : en.val # Absent)) :
     g \in {Absent} \cup {ApiBlocks[i] : i \in 1..4},
     p \in {Absent, ApiBlocks[2], ApiBlocks[4]}}
MethodsB ==
  {Dict(<<Entry("get", ApiBlocks[2])>>),
   Dict(<<Entry("post", ApiBlocks[4]), Entry("get", ApiBlocks[2])>>)}
\* the API definitions: without 'paths' (empty), and with the paths "/a" and
\* "/b", each absent or present, in either insertion order
ApiDefinitions ==
  {Dict(<<>>)} \cup
  {Dict(<<Entry("paths", Dict(SelectSeq(<<Entry("/a", a), Entry("/b", b)>>,
                                        LAMBDA en : en.val # Absent)))>>) :
     a \in {Absent} \cup MethodsA, b \in {Absent} \cup MethodsB} \cup
  {Dict(<<Entry("paths", Dict(<<Entry("/b", b), Entry("/a", a)>>))>>) :
     a \in MethodsA, b \in MethodsB}

InitGateway ==
  /\ dev_json \in ApiDefinitions
  /\ local_json \in ApiDefinitions
  /\ issues_found = 0
  /\ ui_rows = <<>>
  /\ report_lines = <<>>
  /\ pc = "definitions"
  /\ d1 = Dict(<<>>)
  /\ d2 = Dict(<<>>)
  /\ differences = <<>>
  /\ diffs = NoDiffs
  /\ ApiIdle
  /\ S3Idle
  /\ StackIdle
  /\ EcsIdle
  /\ st = <<>>

gatewayOthers ==
  <<d1, d2, differences, diffs, apiVars, s3Vars, stack, ecsVars, st, dev_json, local_json>>

\* render_api_dashboard_strict(dev_json, local_json) of auditorProV3.py
RenderApiDashboardStrict ==
  /\ pc = "definitions"
  /\ LET result == AuditPaths(dev_json, local_json, "auditorProV3")
     IN  /\ issues_found' = result.issues_found
         /\ ui_rows' = result.ui_rows
         /\ report_lines' = result.report_lines
  /\ pc' = "auditorProV3: dashboard"
  /\ UNCHANGED gatewayOthers

\* main of diffV2.py, the two exports fetched: it returns at once if one of
\* them is empty, and writes to the report file what the dashboard appends
\* to report_lines (it builds no rows)
MainDiffV2 ==
  /\ pc = "definitions"
  /\ IF Falsy(dev_json) \/ Falsy(local_json)
       THEN pc' = "diffV2: no report" /\ UNCHANGED <<issues_found, report_lines>>
       ELSE LET result == AuditPaths(dev_json, local_json, "diffV2")
            IN  /\ issues_found' = result.issues_found
                /\ report_lines' = result.report_lines
                /\ pc' = "diffV2: main"
  /\ UNCHANGED <<ui_rows, gatewayOthers>>

\* normalize_integration of AWSGatewayDiff.py
normalize_integration_gatewayDiff(method_data) ==
  IF HasKey(method_data, IntegrationKey)
    THEN LET integ == Get(method_data, IntegrationKey)
         IN  Dict(<<Entry("type", GetOr(integ, "type", Null)),
                    Entry("uri", GetOr(integ, "uri", Null)),
                    Entry("httpMethod", GetOr(integ, "httpMethod", Null))>>)
    ELSE Null

\* the methods of the paths that both definitions hold, as <<path, method>>:
\* those of Dev that Local lacks, and those that both hold
MethodsOf(paths, path) == KeysOf(Get(paths, path))
MissingMethods(dev_paths, local_paths) ==
  UNION {{<<path, method>> :
            method \in MethodsOf(dev_paths, path) \ MethodsOf(local_paths, path)} :
           path \in KeysOf(dev_paths) \cap KeysOf(local_paths)}
CommonMethods(dev_paths, local_paths) ==
  UNION {{<<path, method>> :
            method \in MethodsOf(dev_paths, path) \cap MethodsOf(local_paths, path)} :
           path \in KeysOf(dev_paths) \cap KeysOf(local_paths)}
Details(paths, pm) == Get(Get(paths, pm[1]), pm[2])

\* main of AWSGatewayDiff.py, the two exports fetched.  Its loops run over
\* sets of paths, in no order that counts: the issues are counted whatever
\* the order.  Where the two normalized integrations differ, the line
\* print(f"       Dev URI:   {dev_integ.get('uri')}") and the next come before
\* the count, and .get raises AttributeError on None.
MainGatewayDiff ==
  /\ pc = "definitions"
  /\ IF Falsy(dev_json) \/ Falsy(local_json)
       THEN pc' = "AWSGatewayDiff: no report" /\ UNCHANGED issues_found
       ELSE LET dev_paths == GetOr(dev_json, "paths", Dict(<<>>))
                local_paths == GetOr(local_json, "paths", Dict(<<>>))
                missing_in_local == KeysOf(dev_paths) \ KeysOf(local_paths)
                integ_dev(pm) == normalize_integration_gatewayDiff(Details(dev_paths, pm))
                integ_local(pm) == normalize_integration_gatewayDiff(Details(local_paths, pm))
                mismatch == {pm \in CommonMethods(dev_paths, local_paths) :
                               ~PyEq(integ_dev(pm), integ_local(pm))}
            IN  IF \E pm \in mismatch : integ_dev(pm) = Null \/ integ_local(pm) = Null
                  THEN pc' = "AWSGatewayDiff: AttributeError" /\ UNCHANGED issues_found
                  ELSE /\ issues_found' = Cardinality(missing_in_local)
                                            + Cardinality(MissingMethods(dev_paths, local_paths))
                                            + Cardinality(mismatch)
                       /\ pc' = "AWSGatewayDiff: main"
  /\ UNCHANGED <<ui_rows, report_lines, gatewayOthers>>

NextGateway == RenderApiDashboardStrict \/ MainDiffV2 \/ MainGatewayDiff

SpecGateway == InitGateway /\ [][NextGateway]_vars

----------------------------------------------------------------------------
(* The ECS comparison: render_ecs_dashboard of auditorProV3.py (the same   *)
(* loop stands in infraAuditProV2.py and in offline_editor.py) and         *)
(* compare_ecs_logic of diffv3.py and of ultimateDiffV2.py.  A container   *)
(* holds the list 'environment' of name/value items and the list 'secrets' *)
(* of name/valueFrom items.  A name and a value are sequences of pieces of *)
(* text, so that `"SECRET" in k` and `"us-east-1" in str(val_s)` are the   *)
(* search for a piece; the value '-' is the one piece "-".                 *)

Contains(text, piece) == \E i \in 1..Len(text) : text[i] = piece
Dash == <<"-">>

\* the names that occur, in their sorted order
NameOrder == << <<"API_", "SECRET">>, <<"DB", "_HOST">>, <<"MODE">> >>
SortedNames(names) == SelectSeq(NameOrder, LAMBDA k : k \in names)

\* parse_ecs_env / parse_ecs_container: vars_map, a later item of the same
\* name replacing an earlier one and a secret replacing a plain variable
NamesOf(items) == {items[i].name : i \in 1..Len(items)}
LastOf(items, name) ==
  items[CHOOSE i \in 1..Len(items) :
          /\ items[i].name = name
          /\ \A j \in (i + 1)..Len(items) : items[j].name # name]
parse_ecs_env(container_def) ==
  [name \in NamesOf(container_def.environment) \cup NamesOf(container_def.secrets) |->
     IF name \in NamesOf(container_def.secrets)
       THEN [value |-> LastOf(container_def.secrets, name).valueFrom, type |-> "Secret"]
       ELSE [value |-> LastOf(container_def.environment, name).value, type |-> "Plain"]]

\* map_d.get(k, {}).get('value', '-') and map_d.get(k, {}).get('type')
ValueOf(vars_map, k) == IF k \in DOMAIN vars_map THEN vars_map[k].value ELSE Dash
TypeOf(vars_map, k) == IF k \in DOMAIN vars_map THEN vars_map[k].type ELSE "None"

\* a row of a table: the variable, its status, the two values and, in the
\* dashboard, the category ("" in the tables that have no such column)
EcsRow(variable, status, source, target, category) ==
  [Variable |-> variable, Status |-> status, Source |-> source, Target |-> target,
   Category |-> category]

ConfigKeys == {"_HOST", "_URL", "_URI", "_ARN", "_DB", "_BUCKET"}

\* the if/elif chain of render_ecs_dashboard: <<status, category>>
Classify(k, map_d, map_s, val_d, val_s, region) ==
  IF val_d = Dash THEN <<"Missing in Source", "Critical">>
  ELSE IF val_s = Dash THEN <<"Missing in Target", "Critical">>
  ELSE IF /\ region = "EU (Ireland)"
          /\ (Contains(val_s, "us-east-1") \/ Contains(val_s, "us-west-2"))
    THEN <<"Region Violation", "Critical">>
  ELSE IF Contains(k, "SECRET") /\ TypeOf(map_d, k) # TypeOf(map_s, k)
    THEN <<"Type Risk", "Critical">>
  ELSE IF val_d # val_s
    THEN IF \E x \in ConfigKeys : Contains(k, x)
           THEN <<"Config Diff", "Expected">>
           ELSE <<"Value Drift", "Suspicious">>
  ELSE <<"Match", "Expected">>

\* rows: the loop `for k in all_keys`, with its test `if category != "Match"`
DashboardRows(map_d, map_s, region) ==
  LET all_keys == SortedNames(DOMAIN map_d \cup DOMAIN map_s)
      loop[i \in 0..Len(all_keys)] ==
        IF i = 0 THEN <<>>
        ELSE LET k == all_keys[i]
                 val_d == ValueOf(map_d, k)
                 val_s == ValueOf(map_s, k)
                 sc == Classify(k, map_d, map_s, val_d, val_s, region)
             IN  IF sc[2] # "Match"
                   THEN Append(loop[i - 1], EcsRow(k, sc[1], val_d, val_s, sc[2]))
                   ELSE loop[i - 1]
  IN  loop[Len(all_keys)]

\* `if not df.empty: ... else: st.success(...)`
ShowEcs(table) ==
  LET crit == SelectSeq(table, LAMBDA r : r.Category = "Critical")
      susp == SelectSeq(table, LAMBDA r : r.Category = "Suspicious")
      exp == SelectSeq(table, LAMBDA r : r.Category = "Expected")
  IN  IF table # <<>>
        THEN (IF crit # <<>>
                THEN <<Shown("st.error", "Critical Issues Found", Len(crit)),
                       Shown("st.dataframe", "Critical", Len(crit))>>
                ELSE <<>>)
             \o (IF susp # <<>>
                  THEN <<Shown("st.warning", "Suspicious Drifts", Len(susp)),
                         Shown("st.dataframe", "Suspicious", Len(susp))>>
                  ELSE <<>>)
             \o <<Shown("st.expander", "Expected Config Differences (Hidden)", Len(exp)),
                   Shown("st.dataframe", "Expected", Len(exp))>>
        ELSE <<Shown("st.success", "Configuration Logic is Identical!", 0)>>

\* compare_ecs_logic of diffv3.py: a row for every name, with its Diff Status
\* (the Compliance Check column, computed from the name and the Stg value
\* alone, is left out)
LogicRows(map_dev, map_stg) ==
  LET all_keys == SortedNames(DOMAIN map_dev \cup DOMAIN map_stg)
  IN  [i \in 1..Len(all_keys) |->
         LET key == all_keys[i]
             d_val == ValueOf(map_dev, key)
             s_val == ValueOf(map_stg, key)
         IN  EcsRow(key,
                    IF d_val = Dash THEN "Missing in Dev"
                    ELSE IF s_val = Dash THEN "Missing in Stg"
                    ELSE IF d_val # s_val THEN "Changed"
                    ELSE "Match",
                    d_val, s_val, "")]

\* compare_ecs_logic of ultimateDiffV2.py: the status goes by the name's
\* presence in the two maps
UltimateRows(map_dev, map_stg) ==
  LET all_keys == SortedNames(DOMAIN map_dev \cup DOMAIN map_stg)
  IN  [i \in 1..Len(all_keys) |->
         LET key == all_keys[i]
         IN  EcsRow(key,
                    IF key \notin DOMAIN map_dev THEN "Missing in Dev"
                    ELSE IF key \notin DOMAIN map_stg THEN "Missing in Stg"
                    ELSE IF map_dev[key].type # map_stg[key].type THEN "Type Mismatch"
                    ELSE IF map_dev[key].value # map_stg[key].value THEN "Value Mismatch"
                    ELSE "Match",
                    ValueOf(map_dev, key), ValueOf(map_stg, key), "")]

\* The containers: every name is absent, a plain variable or a secret, with
\* one of a few values, '-' and a US endpoint among them; one name can
\* stand in both lists.  The lists are not in sorted order.
Item(name, val) == [name |-> name, value |-> val]
Secret(name, val) == [name |-> name, valueFrom |-> val]
UsEndpoint == <<"db.", "us-east-1", ".rds">>
Containers ==
  {[environment |-> SelectSeq(<<m, s[1], h>>, LAMBDA x : x # Absent),
    secrets |-> SelectSeq(<<s[2]>>, LAMBDA x : x # Absent)] :
     m \in {Absent} \cup {Item(NameOrder[3], v) : v \in {<<"a">>, <<"b">>, Dash}},
     h \in {Absent} \cup {Item(NameOrder[2], v) : v \in {<<"a">>, UsEndpoint, Dash}},
     s \in {<<Absent, Absent>>,
            <<Item(NameOrder[1], <<"a">>), Absent>>,
            <<Absent, Secret(NameOrder[1], <<"a">>)>>,
            <<Absent, Secret(NameOrder[1], <<"b">>)>>,
            <<Item(NameOrder[1], <<"a">>), Secret(NameOrder[1], <<"b">>)>>}}

InitEcs ==
  /\ c_dev \in Containers
  /\ c_stg \in Containers
  /\ region_context \in {"Generic", "EU (Ireland)"}
  /\ rows = <<>>
  /\ st = <<>>
  /\ pc = "task definitions"
  /\ d1 = Dict(<<>>)
  /\ d2 = Dict(<<>>)
  /\ differences = <<>>
  /\ diffs = NoDiffs
  /\ ApiIdle
  /\ S3Idle
  /\ StackIdle
  /\ GatewayIdle

ecsOthers ==
  <<d1, d2, differences, diffs, apiVars, s3Vars, stack, gatewayVars,
    c_dev, c_stg, region_context>>

\* render_ecs_dashboard(d_json, s_json, region_context), the containers taken
RenderEcsDashboard ==
  /\ pc = "task definitions"
  /\ rows' = DashboardRows(parse_ecs_env(c_dev), parse_ecs_env(c_stg), region_context)
  /\ st' = ShowEcs(rows')
  /\ pc' = "auditorProV3: ECS"
  /\ UNCHANGED ecsOthers

\* compare_ecs_logic(dev_json, stg_json, stg_region_context) of diffv3.py
CompareEcsLogic ==
  /\ pc = "task definitions"
  /\ rows' = LogicRows(parse_ecs_env(c_dev), parse_ecs_env(c_stg))
  /\ pc' = "diffv3: ECS"
  /\ UNCHANGED <<st, ecsOthers>>

\* compare_ecs_logic(dev_json, stg_json) of ultimateDiffV2.py
CompareEcsLogicUltimate ==
  /\ pc = "task definitions"
  /\ rows' = UltimateRows(parse_ecs_env(c_dev), parse_ecs_env(c_stg))
  /\ pc' = "ultimateDiffV2: ECS"
  /\ UNCHANGED <<st, ecsOthers>>

NextEcs == RenderEcsDashboard \/ CompareEcsLogic \/ CompareEcsLogicUltimate

SpecEcs == InitEcs /\ [][NextEcs]_vars

----------------------------------------------------------------------------
(* Properties *)

Called == pc # "loaded"
CalledDicts == pc \in {"auditorProV3", "diffV2"}

\* Deep structural equality: same key set at every mapping, sequences equal in
\* length, order and elements, scalars equal (as the language compares them).
RECURSIVE DeepEqual(_, _)
DeepEqual(x, y) ==
  IF IsDict(x) /\ IsDict(y)
    THEN /\ KeysOf(x) = KeysOf(y)
         /\ \A key \in KeysOf(x) : DeepEqual(Get(x, key), Get(y, key))
  ELSE IF IsList(x) /\ IsList(y)
    THEN /\ Len(x.e) = Len(y.e)
         /\ \A i \in 1..Len(x.e) : DeepEqual(x.e[i].val, y.e[i].val)
  ELSE IsScalar(x) /\ IsScalar(y) /\ PyEq(x, y)

\* C1: reflexivity: comparing a document with itself returns no record, from
\* any of the three functions: no missing, extra, value or list mismatch.
C1_Reflexivity ==
  d1 = d2 =>
    /\ CalledDicts => differences = <<>>
    /\ pc = "s3helper" => diffs = NoDiffs

\* a document holding a two-element list has been compared with itself
C1_Witness ==
  /\ pc = "auditorProV3"
  /\ d1 = d2
  /\ \E i \in 1..Len(d1.e) : IsList(d1.e[i].val) /\ Len(d1.e[i].val.e) = 2

\* C2: with no key ignored (compare_dicts of diffV2.py, compare_json_deep) the
\* result is empty if and only if the two documents are deeply structurally
\* equal; any structural difference yields at least one record.
C2_EmptyIffEqual ==
  /\ pc = "diffV2" => (differences = <<>> <=> DeepEqual(d1, d2))
  /\ pc = "s3helper" => (diffs = NoDiffs <=> DeepEqual(d1, d2))

\* two documents equal as mappings but written in different key orders have
\* been compared, and the result is empty
C2_Witness ==
  /\ pc = "s3helper"
  /\ d1 # d2
  /\ DeepEqual(d1, d2)
  /\ diffs = NoDiffs

\* the sets of the records of a result
Records(seq) == {seq[i] : i \in 1..Len(seq)}

\* C3: a key of the ignore list that both documents hold is never reported,
\* nor is anything beneath it: an ignored key occurs in a reported path only
\* as the last key of a MISSING KEY or EXTRA KEY record (a one-sided key).
C3_IgnoredKeysSilent ==
  CalledDicts =>
    \A r \in Records(differences) :
      \A i \in 1..Len(r.path) :
        r.path[i] \in IgnoredKeys =>
          i = Len(r.path) /\ r.kind \in {"MISSING KEY", "EXTRA KEY"}

\* C4: exchanging the two documents exchanges MISSING KEY with EXTRA KEY and
\* the two printed values, and changes nothing else: the same paths are
\* reported, each as often as before.
SwapKind(kind) ==
  CASE kind = "MISSING KEY" -> "EXTRA KEY"
    [] kind = "EXTRA KEY" -> "MISSING KEY"
    [] OTHER -> kind
SwapVals(vals) == IF vals = <<>> THEN <<>> ELSE <<vals[2], vals[1]>>
SwapDifference(r) == Difference(SwapKind(r.kind), r.path, SwapVals(r.vals))
SwapChanged(c) == [key |-> c.key, source |-> c.target, target |-> c.source]

SwappedDicts(forward, backward) ==
  /\ Len(forward) = Len(backward)
  /\ {SwapDifference(r) : r \in Records(forward)} = Records(backward)

C4_KindSwapSymmetry ==
  /\ pc = "auditorProV3" => SwappedDicts(differences, compare_dicts(d2, d1, <<>>))
  /\ pc = "diffV2" => SwappedDicts(differences, compare_dicts_diffV2(d2, d1, <<>>))
  /\ pc = "s3helper" =>
       LET back == compare_json_deep(d2, d1, <<>>)
       IN  /\ Len(diffs.missing) = Len(back.extra)
           /\ Len(diffs.extra) = Len(back.missing)
           /\ Len(diffs.changed) = Len(back.changed)
           /\ Records(diffs.missing) = Records(back.extra)
           /\ Records(diffs.extra) = Records(back.missing)
           /\ {SwapChanged(c) : c \in Records(diffs.changed)} = Records(back.changed)

\* a comparison that reported a missing key, an extra key and a mismatch
C4_Witness ==
  /\ pc = "auditorProV3"
  /\ \E r \in Records(differences) : r.kind = "MISSING KEY"
  /\ \E r \in Records(differences) : r.kind = "EXTRA KEY"
  /\ \E r \in Records(differences) : r.kind = "VALUE MISMATCH"

\* C5: ignoring more keys never reports more.  The number of records with
\* ignore list ign2 is at most the number with any ign1 contained in it; the
\* call made (ignore list IgnoredKeys) lies between the two, and reports no
\* more than diffV2.py's compare_dicts, which ignores nothing.
C5_IgnoreMonotone ==
  pc = "auditorProV3" =>
    LET count == [ign \in SUBSET Keys |->
                    Len(compare_dicts_ignoring(d1, d2, <<>>, ign))]
    IN  /\ \A ign2 \in SUBSET Keys : \A ign1 \in SUBSET ign2 : count[ign2] <= count[ign1]
        /\ Len(differences) = count[IgnoredKeys \cap Keys]
        /\ Len(differences) <= Len(compare_dicts_diffV2(d1, d2, <<>>))

\* ignoring "uri" removed records that the empty ignore list reports
C5_Witness ==
  /\ pc = "auditorProV3"
  /\ Len(differences) = 1
  /\ Len(compare_dicts_ignoring(d1, d2, <<>>, {})) = 2

\* The key chains the recursion walks.  Reached(a, b, keys, ignore) is the set
\* of <<keys, a, b>> over the pairs of mappings the recursion is called on:
\* the two documents, and below a reached pair every key that both hold, that
\* is not ignored and whose two values are mappings.
RECURSIVE Reached(_, _, _, _)
Reached(a, b, keys, ignore) ==
  {<<keys, a, b>>} \cup
  UNION {Reached(Get(a, key), Get(b, key), Append(keys, key), ignore) :
           key \in {c \in KeysOf(a) \cap KeysOf(b) :
                      c \notin ignore /\ IsDict(Get(a, c)) /\ IsDict(Get(b, c))}}

\* the path text of a key chain, as compare_dicts and compare_json_deep write it
RECURSIVE RenderArrow(_)
RenderArrow(keys) ==
  IF keys = <<>> THEN <<>>
  ELSE RenderArrow(SubSeq(keys, 1, Len(keys) - 1)) \o <<"->", keys[Len(keys)]>>
RECURSIVE RenderDotted(_)
RenderDotted(keys) ==
  IF Len(keys) <= 1 THEN keys
  ELSE RenderDotted(SubSeq(keys, 1, Len(keys) - 1)) \o <<".", keys[Len(keys)]>>

StrictPrefix(p, q) == Len(p) < Len(q) /\ SubSeq(q, 1, Len(p)) = p
PathsOf(seq) == [i \in 1..Len(seq) |-> seq[i].path]
NoDuplicates(seq) == \A i, j \in 1..Len(seq) : seq[i] = seq[j] => i = j
OfKind(seq, kind) == SelectSeq(seq, LAMBDA r : r.kind = kind)

\* C6: a key that both sides hold with two sequences yields exactly one LIST
\* MISMATCH record, carrying both whole sequences, when the sequences differ,
\* and none when they are equal; no record lies below such a key.
ListAtomicity(result, ignore) ==
  \A n \in Reached(d1, d2, <<>>, ignore) :
    \A key \in (KeysOf(n[2]) \cap KeysOf(n[3])) \ ignore :
      LET val1 == Get(n[2], key)
          val2 == Get(n[3], key)
          cp == RenderArrow(Append(n[1], key))
          at == {i \in 1..Len(result) : result[i].path = cp}
          below == {i \in 1..Len(result) : StrictPrefix(cp, result[i].path)}
      IN  IsList(val1) /\ IsList(val2) =>
            /\ below = {}
            /\ IF DeepEqual(val1, val2) THEN at = {}
               ELSE \E i \in at :
                      /\ at = {i}
                      /\ result[i] = Difference("LIST MISMATCH", cp, <<val1, val2>>)

C6_ListMismatchAtomic ==
  /\ pc = "auditorProV3" => ListAtomicity(differences, IgnoredKeys)
  /\ pc = "diffV2" => ListAtomicity(differences, {})

\* two different sequences that hold mappings were compared one level down
C6_Witness ==
  /\ pc = "auditorProV3"
  /\ \E n \in Reached(d1, d2, <<>>, IgnoredKeys) :
       /\ n[1] # <<>>
       /\ \E key \in KeysOf(n[2]) \cap KeysOf(n[3]) :
            /\ IsList(Get(n[2], key)) /\ IsList(Get(n[3], key))
            /\ \E i \in 1..Len(Get(n[2], key).e) : IsDict(Get(n[2], key).e[i].val)
            /\ ~DeepEqual(Get(n[2], key), Get(n[3], key))
  /\ Len(differences) = 1

\* the key chains that lead through mappings to a scalar leaf, the value at
\* the end of a chain, and the document with that value replaced
RECURSIVE LeafPaths(_)
LeafPaths(x) ==
  IF IsDict(x)
    THEN UNION {{<<key>> \o p : p \in LeafPaths(Get(x, key))} : key \in KeysOf(x)}
  ELSE IF IsScalar(x) THEN {<<>>} ELSE {}
RECURSIVE At(_, _)
At(x, p) == IF p = <<>> THEN x ELSE At(Get(x, Head(p)), Tail(p))
RECURSIVE Subst(_, _, _)
Subst(x, p, v) ==
  IF p = <<>> THEN v
  ELSE [x EXCEPT !.e = [i \in 1..Len(x.e) |->
          IF x.e[i].key = Head(p)
            THEN Entry(x.e[i].key, Subst(x.e[i].val, Tail(p), v))
            ELSE x.e[i]]]

\* the chains at which the two documents differ in one scalar leaf and
\* nowhere else
OneLeafApart ==
  {p \in LeafPaths(d1) \cap LeafPaths(d2) :
     /\ ~PyEq(At(d1, p), At(d2, p))
     /\ d2 = Subst(d1, p, At(d2, p))}

\* C7: two documents identical except for one scalar leaf under the key chain
\* k1..kn (no key of it ignored) give exactly one record: a VALUE MISMATCH at
\* k1..kn carrying the left and the right scalar.
C7_OneLeafOneRecord ==
  \A p \in OneLeafApart :
    /\ (pc = "auditorProV3" /\ \A i \in 1..Len(p) : p[i] \notin IgnoredKeys) =>
         differences =
           <<Difference("VALUE MISMATCH", RenderArrow(p), <<At(d1, p), At(d2, p)>>)>>
    /\ pc = "diffV2" =>
         differences =
           <<Difference("VALUE MISMATCH", RenderArrow(p), <<At(d1, p), At(d2, p)>>)>>
    /\ pc = "s3helper" =>
         diffs = [missing |-> <<>>, extra |-> <<>>,
                  changed |-> <<[key |-> RenderDotted(p),
                                 source |-> At(d1, p), target |-> At(d2, p)]>>]

\* {a: 1, b: {a: 1}} against {a: 1, b: {a: 2}}, in the shape of the example
C7_Witness ==
  /\ pc = "auditorProV3"
  /\ Len(d1.e) = 2
  /\ \E p \in OneLeafApart : Len(p) = 2 /\ \A i \in 1..Len(p) : p[i] \notin IgnoredKeys
  /\ Len(differences) = 1

\* C8: at every pair of mappings the recursion reaches, each key of the left
\* one that the right one lacks gives exactly one MISSING KEY record at the
\* path of that key, each key only the right one holds exactly one EXTRA KEY
\* record, there is no other such record, and nothing is reported below a
\* one-sided key.
OneSidedAt(nodes, Render(_), left) ==
  UNION {{Render(Append(n[1], key)) :
            key \in IF left THEN KeysOf(n[2]) \ KeysOf(n[3])
                            ELSE KeysOf(n[3]) \ KeysOf(n[2])} : n \in nodes}

OneSidedExactlyOnce(left, right, all, nodes, Render(_)) ==
  /\ NoDuplicates(left)
  /\ NoDuplicates(right)
  /\ Records(left) = OneSidedAt(nodes, Render, TRUE)
  /\ Records(right) = OneSidedAt(nodes, Render, FALSE)
  /\ \A q \in Records(left) \cup Records(right) :
       \A r \in all : ~StrictPrefix(q, r)

DictsOneSided(ignore) ==
  OneSidedExactlyOnce(PathsOf(OfKind(differences, "MISSING KEY")),
                      PathsOf(OfKind(differences, "EXTRA KEY")),
                      Records(PathsOf(differences)),
                      Reached(d1, d2, <<>>, ignore), RenderArrow)

C8_OneSidedKeys ==
  /\ pc = "auditorProV3" => DictsOneSided(IgnoredKeys)
  /\ pc = "diffV2" => DictsOneSided({})
  /\ pc = "s3helper" =>
       OneSidedExactlyOnce(diffs.missing, diffs.extra,
                           Records(diffs.missing) \cup Records(diffs.extra)
                             \cup {c.key : c \in Records(diffs.changed)},
                           Reached(d1, d2, <<>>, {}), RenderDotted)

\* {a: {b: {a: {}}}} against {a: {}}, in the shape of the example: one key
\* missing one level down, with a mapping beneath it that is not walked
C8_Witness ==
  /\ pc = "s3helper"
  /\ \E key \in Keys, sub \in Keys :
       /\ KeysOf(d1) = {key} /\ KeysOf(d2) = {key}
       /\ IsDict(Get(d1, key)) /\ Get(d2, key) = Dict(<<>>)
       /\ KeysOf(Get(d1, key)) = {sub}
       /\ IsDict(Get(Get(d1, key), sub)) /\ Get(Get(d1, key), sub) # Dict(<<>>)
       /\ diffs = [missing |-> <<<<key, ".", sub>>>>, extra |-> <<>>, changed |-> <<>>]

\* C9: the order of the records.  At every pair of mappings reached, with
\* path text P: the records at or below P are consecutive; among them come
\* first the MISSING KEY records of this level in the left mapping's key
\* order, then the EXTRA KEY records of this level in the right mapping's key
\* order, then the records of the common keys in the left mapping's key
\* order; and they are, in this order, exactly what the call on that pair
\* returns (a child's records are inlined, flat).
Pos(d, key) == CHOOSE i \in 1..Len(d.e) : d.e[i].key = key

Rank(r, n) ==
  LET key == r.path[2 * Len(n[1]) + 2]
      direct == Len(r.path) = 2 * Len(n[1]) + 2
  IN  IF direct /\ r.kind = "MISSING KEY" THEN Pos(n[2], key)
      ELSE IF direct /\ r.kind = "EXTRA KEY" THEN Len(n[2].e) + Pos(n[3], key)
      ELSE Len(n[2].e) + Len(n[3].e) + Pos(n[2], key)

OrderedAt(result, n, call) ==
  LET P == RenderArrow(n[1])
      idx == {i \in 1..Len(result) : StrictPrefix(P, result[i].path)}
  IN  /\ \A i, j \in idx : \A m \in i..j : m \in idx
      /\ \A i, j \in idx : i < j => Rank(result[i], n) <= Rank(result[j], n)
      /\ \A i, j \in idx :
           (i < j /\ Rank(result[i], n) = Rank(result[j], n)) =>
              /\ Len(result[i].path) > Len(P) + 2
              /\ Len(result[j].path) > Len(P) + 2
      /\ SelectSeq(result, LAMBDA r : StrictPrefix(P, r.path)) = call

C9_OutputOrder ==
  /\ pc = "auditorProV3" =>
       \A n \in Reached(d1, d2, <<>>, IgnoredKeys) :
         OrderedAt(differences, n,
                   compare_dicts_ignoring(n[2], n[3], RenderArrow(n[1]), IgnoredKeys))
  /\ pc = "diffV2" =>
       \A n \in Reached(d1, d2, <<>>, {}) :
         OrderedAt(differences, n, compare_dicts_diffV2(n[2], n[3], RenderArrow(n[1])))

\* a result holding, in this order, a missing key, an extra key and the
\* record of a common key that comes first in the left document
C9_Witness ==
  /\ pc = "diffV2"
  /\ Len(differences) = 3
  /\ differences[1].kind = "MISSING KEY"
  /\ differences[2].kind = "EXTRA KEY"
  /\ differences[3].kind = "VALUE MISMATCH"
  /\ d1.e[1].key = differences[3].path[2]

\* C10: determinism: the set of records depends on the documents as mappings
\* only.  Every insertion order of the keys, at every depth, gives the records
\* that the documents with their keys in one fixed order give, the values
\* they carry compared as mappings.
RECURSIVE Canon(_)
Canon(x) ==
  IF IsDict(x)
    THEN LET sorted == SelectSeq(KeyOrder, LAMBDA key : HasKey(x, key))
         IN  Dict([i \in 1..Len(sorted) |-> Entry(sorted[i], Canon(Get(x, sorted[i])))])
  ELSE IF IsList(x)
    THEN [x EXCEPT !.e = [i \in 1..Len(x.e) |-> Entry("", Canon(x.e[i].val))]]
  ELSE x

CanonDifference(r) ==
  Difference(r.kind, r.path, [i \in 1..Len(r.vals) |-> Canon(r.vals[i])])
CanonChanged(c) ==
  [key |-> c.key, source |-> Canon(c.source), target |-> Canon(c.target)]

C10_KeyOrderIndependent ==
  /\ pc = "auditorProV3" =>
       LET sorted == compare_dicts(Canon(d1), Canon(d2), <<>>)
       IN  /\ Len(differences) = Len(sorted)
           /\ {CanonDifference(r) : r \in Records(differences)}
                = {CanonDifference(r) : r \in Records(sorted)}
  /\ pc = "s3helper" =>
       LET sorted == compare_json_deep(Canon(d1), Canon(d2), <<>>)
       IN  /\ Len(diffs.missing) = Len(sorted.missing)
           /\ Len(diffs.extra) = Len(sorted.extra)
           /\ Len(diffs.changed) = Len(sorted.changed)
           /\ Records(diffs.missing) = Records(sorted.missing)
           /\ Records(diffs.extra) = Records(sorted.extra)
           /\ {CanonChanged(c) : c \in Records(diffs.changed)}
                = {CanonChanged(c) : c \in Records(sorted.changed)}

\* both documents list their keys in another order than the fixed one, and
\* the comparison reported two records
C10_Witness ==
  /\ pc = "auditorProV3"
  /\ d1 # Canon(d1)
  /\ d2 # Canon(d2)
  /\ Len(differences) = 2

\* the common, non-ignored keys of the pairs of mappings the recursion reaches:
\* <<val1, val2, key chain>>
CommonKeys(ignore) ==
  UNION {{<<Get(n[2], key), Get(n[3], key), Append(n[1], key)>> :
            key \in (KeysOf(n[2]) \cap KeysOf(n[3])) \ ignore} :
           n \in Reached(d1, d2, <<>>, ignore)}

\* C11: a common key with two scalars is reported (VALUE MISMATCH, a "changed"
\* entry) if and only if the scalars differ in type or in value; scalars of
\* different types, a boolean and a number among them, are never equal.
ScalarsByTypeAndValue(result, ignore) ==
  \A c \in CommonKeys(ignore) :
    (IsScalar(c[1]) /\ IsScalar(c[2])) =>
      ((Difference("VALUE MISMATCH", RenderArrow(c[3]), <<c[1], c[2]>>) \in Records(result))
         <=> (c[1].k # c[2].k \/ c[1].s # c[2].s))

C11_ScalarTypeAndValue ==
  /\ pc = "auditorProV3" => ScalarsByTypeAndValue(differences, IgnoredKeys)
  /\ pc = "diffV2" => ScalarsByTypeAndValue(differences, {})
  /\ pc = "s3helper" =>
       \A c \in CommonKeys({}) :
         (IsScalar(c[1]) /\ IsScalar(c[2])) =>
           (([key |-> RenderDotted(c[3]), source |-> c[1], target |-> c[2]]
               \in Records(diffs.changed))
              <=> (c[1].k # c[2].k \/ c[1].s # c[2].s))

\* the node kinds: Mapping, Sequence, Scalar (null is a scalar)
NodeKind(x) == IF IsDict(x) THEN "Mapping" ELSE IF IsList(x) THEN "Sequence" ELSE "Scalar"

\* C12: a common, non-ignored key whose two values are of different node kinds
\* gives exactly one VALUE MISMATCH record (one "changed" entry) at that key,
\* carrying both values, and no record below the key: neither value is walked.
C12_KindMismatchAtomic ==
  /\ pc = "auditorProV3" =>
       \A c \in CommonKeys(IgnoredKeys) :
         NodeKind(c[1]) # NodeKind(c[2]) =>
           LET cp == RenderArrow(c[3])
               at == {i \in 1..Len(differences) : differences[i].path = cp}
           IN  /\ \E i \in at :
                    /\ at = {i}
                    /\ differences[i] = Difference("VALUE MISMATCH", cp, <<c[1], c[2]>>)
               /\ \A i \in 1..Len(differences) : ~StrictPrefix(cp, differences[i].path)
  /\ pc = "s3helper" =>
       \A c \in CommonKeys({}) :
         NodeKind(c[1]) # NodeKind(c[2]) =>
           LET cp == RenderDotted(c[3])
               at == {i \in 1..Len(diffs.changed) : diffs.changed[i].key = cp}
           IN  /\ \E i \in at :
                    /\ at = {i}
                    /\ diffs.changed[i] = [key |-> cp, source |-> c[1], target |-> c[2]]
               /\ \A q \in Records(diffs.missing) \cup Records(diffs.extra)
                             \cup {r.key : r \in Records(diffs.changed)} :
                    ~StrictPrefix(cp, q)

\* one level down a populated mapping stood against a sequence, and the
\* comparison returned the one record
C12_Witness ==
  /\ pc = "auditorProV3"
  /\ Len(differences) = 1
  /\ \E c \in CommonKeys(IgnoredKeys) :
       /\ Len(c[3]) = 2
       /\ IsDict(c[1]) /\ c[1] # Dict(<<>>)
       /\ IsList(c[2])

\* C13: a call with null on one side and a populated mapping on the other
\* returns, and returns one MISSING KEY record for every key of the left
\* mapping (one EXTRA KEY record for every key of the right one) and no
\* other record.
AllKeys(kind, d) == [i \in 1..Len(d.e) |-> Difference(kind, Arrow(<<>>, d.e[i].key), <<>>)]
AllPaths(d) == [i \in 1..Len(d.e) |-> Dotted(<<>>, d.e[i].key)]

C13_NullSideIsOneSided ==
  /\ (Called /\ d2 = Null /\ IsDict(d1) /\ d1 # Dict(<<>>)) =>
       /\ pc \notin Raised
       /\ CalledDicts => differences = AllKeys("MISSING KEY", d1)
       /\ pc = "s3helper" => diffs = [NoDiffs EXCEPT !.missing = AllPaths(d1)]
  /\ (Called /\ d1 = Null /\ IsDict(d2) /\ d2 # Dict(<<>>)) =>
       /\ pc \notin Raised
       /\ CalledDicts => differences = AllKeys("EXTRA KEY", d2)
       /\ pc = "s3helper" => diffs = [NoDiffs EXCEPT !.extra = AllPaths(d2)]

ProjectedFields == {"type", "uri", "httpMethod", "timeoutInMillis", "requestParameters"}

C15_StableShape ==
  /\ pc = "normalized" =>
       /\ KeysOf(dev_integ) = ProjectedFields
       /\ KeysOf(local_integ) = ProjectedFields
  /\ pc = "apiGAtewayTab" =>
       /\ IsDict(dev_integ) /\ ProjectedFields \subseteq KeysOf(dev_integ)
       /\ IsDict(local_integ) /\ ProjectedFields \subseteq KeysOf(local_integ)
  /\ pc \in {"auditorProV3: Integration", "diffV2: Integration"} =>
       \A r \in Records(differences) :
         r.kind \in {"MISSING KEY", "EXTRA KEY"} =>
           \A f \in ProjectedFields : r.path # <<"Integration", "->", f>>

\* the strings the masking is about: a 12-digit account ID, and an ARN
\* (arn:aws:<service>:<region>:<account>:<resource>)
IsAccountId(s) == Len(s) = AccountDigits /\ \A i \in 1..Len(s) : s[i] \in Digit
IsArn(s) == Len(s) > Len(ArnHead) /\ SubSeq(s, 1, Len(ArnHead)) = ArnHead
SameButId(a, b) ==
  \/ a = b
  \/ IsAccountId(a) /\ IsAccountId(b)
  \/ IsArn(a) /\ IsArn(b)

\* two policies identical except that account IDs and ARNs in them differ
RECURSIVE SameButIds(_, _)
SameButIds(x, y) ==
  IF (IsDict(x) /\ IsDict(y)) \/ (IsList(x) /\ IsList(y))
    THEN /\ Len(x.e) = Len(y.e)
         /\ \A i \in 1..Len(x.e) :
              /\ SameButId(x.e[i].key, y.e[i].key)
              /\ SameButIds(x.e[i].val, y.e[i].val)
  ELSE IF x.k = "str" /\ y.k = "str" THEN SameButId(x.s, y.s)
  ELSE x.k = "null" /\ y.k = "null"

\* C16: two policies identical except for the account IDs and the ARNs in
\* them (ARNs that hold an account ID and differ in their resource part
\* among them) are normalized to equal statement lists, and the comparison
\* reports nothing missing.
C16_IdsAndArnsMasked ==
  SameButIds(d_policy, s_policy) =>
    /\ pc \in {"normalized", "policies compared"} => PyEq(p_dev, p_stg)
    /\ pc = "policies compared" => missing = <<>>

\* the strings of a value: its keys and its string values, at any depth
RECURSIVE StringsOf(_)
StringsOf(x) ==
  IF IsDict(x) \/ IsList(x)
    THEN UNION {{x.e[i].key} \cup StringsOf(x.e[i].val) : i \in 1..Len(x.e)}
  ELSE IF x.k = "str" THEN {x.s} ELSE {}

HasDigitRun(s) ==
  \E i \in 1..Len(s) :
    /\ i + AccountDigits - 1 <= Len(s)
    /\ \A j \in i..(i + AccountDigits - 1) : s[j] \in Digit

\* the statements of a policy as the code takes them: Statement, a single
\* mapping counting as a list of one
StatementsOf(policy) ==
  IF ~IsDict(policy) \/ ~HasKey(policy, Statement) THEN Array(<<>>)
  ELSE IF IsDict(Get(policy, Statement)) THEN Array(<<Get(policy, Statement)>>)
  ELSE Get(policy, Statement)

\* every string value of `in` that is an ARN stands in `out` as the ARN
\* placeholder and nothing else
RECURSIVE ArnsReplaced(_, _)
ArnsReplaced(in, out) ==
  IF IsDict(in) /\ IsDict(out)
    THEN \A key \in KeysOf(in) \cap KeysOf(out) : ArnsReplaced(Get(in, key), Get(out, key))
  ELSE IF IsList(in) /\ IsList(out)
    THEN /\ Len(in.e) = Len(out.e)
         /\ \A i \in 1..Len(in.e) : ArnsReplaced(in.e[i].val, out.e[i].val)
  ELSE (in.k = "str" /\ IsArn(in.s)) => (out.k = "str" /\ out.s = ARN_MASKED)

\* C17: in what normalize_policy_logic returns no string, key or value, at
\* any depth, holds 12 digits in a row, and every ARN of the policy has been
\* replaced as a whole by the ARN placeholder.
C17_MaskingComplete ==
  pc \in {"normalized", "policies compared"} =>
    /\ \A s \in StringsOf(p_dev) \cup StringsOf(p_stg) : ~HasDigitRun(s)
    /\ ArnsReplaced(StatementsOf(d_policy), p_dev)
    /\ ArnsReplaced(StatementsOf(s_policy), p_stg)

\* C18: normalize_policy_logic called on what it returned returns, and
\* returns the same statements: the placeholders of the first pass are left
\* as they are.
C18_MaskingIdempotent ==
  pc \in {"normalized again", "again: AttributeError", "again: JSONDecodeError"} =>
    /\ pc = "normalized again"
    /\ p_dev = normalize_policy_logic(d_policy).val

\* the policy with its Statement replaced
WithStatement(policy, stmts) ==
  [policy EXCEPT !.e = [i \in 1..Len(policy.e) |->
     IF policy.e[i].key = Statement THEN Entry(Statement, stmts) ELSE policy.e[i]]]

\* C19: a Statement that is a single mapping is returned as a list of one
\* element, the list returned for the policy with the Statement wrapped in a
\* list; a Statement that is a list of n mappings is returned as a list of n
\* elements in the same order: the i-th is what the i-th alone gives.
StatementWrapped(policy, result) ==
  (IsDict(policy) /\ HasKey(policy, Statement)) =>
    LET stmts == Get(policy, Statement)
    IN  /\ IsDict(stmts) =>
             /\ IsList(result)
             /\ Len(result.e) = 1
             /\ result = normalize_policy_logic(WithStatement(policy, Array(<<stmts>>))).val
        /\ IsList(stmts) =>
             /\ IsList(result)
             /\ Len(result.e) = Len(stmts.e)
             /\ \A i \in 1..Len(stmts.e) :
                  Array(<<result.e[i].val>>) =
                    normalize_policy_logic(WithStatement(policy, stmts.e[i].val)).val

C19_SingleStatementWrapped ==
  pc = "normalized" =>
    /\ StatementWrapped(d_policy, p_dev)
    /\ StatementWrapped(s_policy, p_stg)

\* the source policy holds one statement as a mapping, the target policy a
\* list of two different statements
C19_Witness ==
  /\ pc = "normalized"
  /\ IsDict(d_policy) /\ HasKey(d_policy, Statement) /\ IsDict(Get(d_policy, Statement))
  /\ Len(p_dev.e) = 1
  /\ IsDict(s_policy) /\ HasKey(s_policy, Statement) /\ IsList(Get(s_policy, Statement))
  /\ Len(p_stg.e) = 2
  /\ p_stg.e[1] # p_stg.e[2]

\* C20: a policy that is absent (None) is normalized to the empty list, no
\* exception raised, and the comparison takes it as a policy without
\* statements: nothing of an absent source policy is missing, and every
\* statement of the source is missing from an absent target policy.
C20_AbsentPolicy ==
  /\ d_policy = Null =>
       /\ pc \notin {"p_dev: JSONDecodeError", "p_dev: AttributeError"}
       /\ pc \in {"normalized", "policies compared"} => p_dev = Array(<<>>)
       /\ pc = "policies compared" => missing = <<>>
  /\ s_policy = Null =>
       /\ pc \notin {"p_stg: JSONDecodeError", "p_stg: AttributeError"}
       /\ pc \in {"normalized", "policies compared"} => p_stg = Array(<<>>)
       /\ pc = "policies compared" =>
            missing = [i \in 1..Len(p_dev.e) |-> p_dev.e[i].val]

\* a source policy of two statements has been compared with an absent target
\* policy
C20_Witness ==
  /\ pc = "policies compared"
  /\ s_policy = Null
  /\ d_policy # Null
  /\ Len(missing) = 2

\* C22: the compare_dicts of auditorProV3.py and the compare_dicts of
\* diffV2.py are equivalent: on the same pair of documents and the same
\* starting path each returns the list of difference strings the other
\* returns, keys of the ignore list on both sides included.
C22_CopiesEquivalent ==
  /\ pc = "diffV2" => differences = compare_dicts(d1, d2, <<>>)
  /\ pc = "auditorProV3" => differences = compare_dicts_diffV2(d1, d2, <<>>)

\* the records of a result that carry a given path
AtPath(seq, path) == SelectSeq(seq, LAMBDA r : r.path = path)

\* C23: the ignore list suppresses only the comparison of keys that both
\* sides hold.  At every pair of mappings the recursion of auditorProV3.py's
\* compare_dicts reaches, a key of the ignore list held by the left mapping
\* only is reported by exactly one record, a MISSING KEY, and one held by the
\* right mapping only by exactly one record, an EXTRA KEY.
C23_OneSidedIgnoredKeyReported ==
  pc = "auditorProV3" =>
    \A n \in Reached(d1, d2, <<>>, IgnoredKeys) :
      \A key \in IgnoredKeys :
        LET here == AtPath(differences, RenderArrow(Append(n[1], key)))
        IN  /\ key \in KeysOf(n[2]) \ KeysOf(n[3]) =>
                 Len(here) = 1 /\ here[1].kind = "MISSING KEY"
            /\ key \in KeysOf(n[3]) \ KeysOf(n[2]) =>
                 Len(here) = 1 /\ here[1].kind = "EXTRA KEY"

\* an ignored key held by the left mapping only, one level down: its MISSING
\* KEY record is all that is returned
C23_Witness ==
  /\ pc = "auditorProV3"
  /\ HasKey(d1, "a") /\ HasKey(d2, "a")
  /\ IsDict(Get(d1, "a")) /\ IsDict(Get(d2, "a"))
  /\ HasKey(Get(d1, "a"), "uri") /\ ~HasKey(Get(d2, "a"), "uri")
  /\ differences = <<Difference("MISSING KEY", <<"->", "a", "->", "uri">>, <<>>)>>

\* the keys of a path text: "->" key "->" key ... and key "." key ...
KeyChainArrow(path) == [i \in 1..(Len(path) \div 2) |-> path[2 * i]]
KeyChainDotted(path) == [i \in 1..((Len(path) + 1) \div 2) |-> path[2 * i - 1]]

\* no key of the document, at any depth, is in the ignore list
RECURSIVE NoIgnoredKey(_)
NoIgnoredKey(x) ==
  /\ IsDict(x) => KeysOf(x) \cap IgnoredKeys = {}
  /\ \A i \in 1..Len(x.e) : NoIgnoredKey(x.e[i].val)

\* what a result of compare_dicts and a result of compare_json_deep say, in
\* one form: the key chains of the one-sided keys, and for every changed
\* value its key chain and the two values
ClassesOfDicts(result) ==
  [missing |-> [i \in 1..Len(OfKind(result, "MISSING KEY")) |->
                  KeyChainArrow(OfKind(result, "MISSING KEY")[i].path)],
   extra   |-> [i \in 1..Len(OfKind(result, "EXTRA KEY")) |->
                  KeyChainArrow(OfKind(result, "EXTRA KEY")[i].path)],
   changed |-> LET both == SelectSeq(result, LAMBDA r :
                             r.kind \in {"VALUE MISMATCH", "LIST MISMATCH"})
               IN  [i \in 1..Len(both) |->
                      <<KeyChainArrow(both[i].path), both[i].vals[1], both[i].vals[2]>>]]
ClassesOfDeep(result) ==
  [missing |-> [i \in 1..Len(result.missing) |-> KeyChainDotted(result.missing[i])],
   extra   |-> [i \in 1..Len(result.extra) |-> KeyChainDotted(result.extra[i])],
   changed |-> [i \in 1..Len(result.changed) |->
                  <<KeyChainDotted(result.changed[i].key),
                    result.changed[i].source, result.changed[i].target>>]]

\* C25: compare_json_deep and compare_dicts classify alike.  On a pair of
\* documents in which no key is uri, credentials or passthroughBehavior, the
\* "missing" list holds the key chains of the MISSING KEY records, the
\* "extra" list those of the EXTRA KEY records, and the "changed" entries the
\* key chains and values of the VALUE MISMATCH and LIST MISMATCH records taken
\* together, each in the same order.
C25_ClassifyAlike ==
  (NoIgnoredKey(d1) /\ NoIgnoredKey(d2)) =>
    /\ pc = "s3helper" =>
         ClassesOfDeep(diffs) = ClassesOfDicts(compare_dicts(d1, d2, <<>>))
    /\ pc = "auditorProV3" =>
         ClassesOfDicts(differences) = ClassesOfDeep(compare_json_deep(d1, d2, <<>>))

\* two different sequences under the same key chain, one level down: a LIST
\* MISMATCH for compare_dicts, a "changed" entry for compare_json_deep
C25_Witness ==
  /\ pc = "s3helper"
  /\ NoIgnoredKey(d1) /\ NoIgnoredKey(d2)
  /\ Len(diffs.changed) = 1
  /\ diffs.changed[1].key = <<"a", ".", "a">>
  /\ IsList(diffs.changed[1].source) /\ IsList(diffs.changed[1].target)
  /\ OfKind(compare_dicts(d1, d2, <<>>), "LIST MISMATCH") # <<>>

\* C24: normalize_policy_logic never raises for a non-empty policy mapping
\* made of JSON values, a bare number of 12 or more digits among them: the
\* masked text re-parses and a sequence of statements is returned for the
\* source and for the target policy.
C24_NeverRaises ==
  (IsDict(d_policy) /\ ~Falsy(d_policy) /\ IsDict(s_policy) /\ ~Falsy(s_policy)) =>
    /\ pc \notin {RaisedBy(call, exc) : call \in {"p_dev", "p_stg"},
                                        exc \in {"JSONDecodeError", "AttributeError"}}
    /\ pc # "buckets" => IsList(p_dev) /\ IsList(p_stg)

\* the masked form of one statement: serialized, the two substitutions made,
\* parsed again
MaskedForm(stmt) == loads(re_sub(dumps(stmt)))

\* C27: the missing permissions of render_s3_dashboard are the statements of
\* the source policy, in source order and in their masked form, whose masked
\* form equals the masked form of no statement of the target policy.  The
\* policies are shown as matching if and only if that list is empty, and a
\* statement that only the target holds is not in the list.
C27_MissingPermissions ==
  pc = "policies compared" =>
    LET src == StatementsOf(d_policy)
        tgt == StatementsOf(s_policy)
        Unmatched(i) ==
          \A j \in 1..Len(tgt.e) :
            ~PyEq(MaskedForm(src.e[i].val), MaskedForm(tgt.e[j].val))
        idx == SelectSeq([i \in 1..Len(src.e) |-> i], LAMBDA i : Unmatched(i))
    IN  /\ missing = [n \in 1..Len(idx) |-> MaskedForm(src.e[idx[n]].val)]
        /\ st # <<>>
        /\ st[1].call = "st.success" <=> missing = <<>>
        /\ st[1].call = "st.error" <=> missing # <<>>
        /\ \A j \in 1..Len(tgt.e) :
             (\A i \in 1..Len(src.e) :
                ~PyEq(MaskedForm(src.e[i].val), MaskedForm(tgt.e[j].val)))
               => \A n \in 1..Len(missing) : ~PyEq(missing[n], MaskedForm(tgt.e[j].val))

\* of two source statements one is missing in the target, which holds a
\* statement of its own that the source lacks
C27_Witness ==
  /\ pc = "policies compared"
  /\ Len(p_dev.e) = 2
  /\ Len(missing) = 1
  /\ \E j \in 1..Len(p_stg.e) : NotIn(p_stg.e[j].val, p_dev)
  /\ st[1] = Shown("st.error", "Permissions MISSING in Target", 1)

\* how deep the mappings of a document nest: 1 for a mapping that holds no
\* mapping, one more for every mapping held as the value of a key
RECURSIVE MappingDepth(_)
MappingDepth(x) ==
  IF ~IsDict(x) THEN 0
  ELSE LET below == {MappingDepth(x.e[i].val) : i \in 1..Len(x.e)} \cup {0}
       IN  1 + CHOOSE m \in below : \A n \in below : n <= m
Shallower == IF MappingDepth(d1) <= MappingDepth(d2) THEN MappingDepth(d1) ELSE MappingDepth(d2)

\* C21: the diff terminates on every pair of finite documents, and the calls
\* that have not returned are never more than the mappings of the shallower
\* document nest (a nested call is made only where both sides hold a mapping
\* under the same key); the call by call run returns what compare_dicts and
\* compare_json_deep return.
C21_TerminatesWithinDepth ==
  /\ [](/\ Len(stack) <= Shallower
        /\ pc = "auditorProV3" => differences = compare_dicts(d1, d2, <<>>)
        /\ pc = "s3helper" => diffs = compare_json_deep(d1, d2, <<>>))
  /\ (pc = "loaded" ~> pc \in {"auditorProV3", "s3helper"})

\* three calls have not returned, as deep as the shallower document (the
\* right one) nests; the left one nests deeper
C21_Witness ==
  /\ pc = "running"
  /\ Len(stack) = 3
  /\ MappingDepth(d2) = 3
  /\ MappingDepth(d1) = 4

DevPaths == GetOr(dev_json, "paths", Dict(<<>>))
LocalPaths == GetOr(local_json, "paths", Dict(<<>>))
\* the methods of both definitions whose normalized integrations give a
\* non-empty result
Mismatched(file) ==
  {pm \in CommonMethods(DevPaths, LocalPaths) :
     CompareIn(file, normalize_integration(Details(DevPaths, pm)),
               normalize_integration(Details(LocalPaths, pm)), <<"Integration">>) # <<>>}
\* paths of Dev absent from Local + methods of common paths absent from Local
\* + common methods with a non-empty result
IssueSum(file) ==
  Cardinality(KeysOf(DevPaths) \ KeysOf(LocalPaths))
    + Cardinality(MissingMethods(DevPaths, LocalPaths))
    + Cardinality(Mismatched(file))
LastLine == report_lines[Len(report_lines)]

\* C26: when render_api_dashboard_strict returns, the number of UI rows
\* equals issues_found, and both equal the number of Dev paths absent from
\* Local, plus the number of methods of common paths absent from Local, plus
\* the number of common methods whose normalized integrations give a
\* non-empty compare_dicts result; 'Perfect Match' is reported exactly when
\* that sum is 0.  The loop of diffV2.py's main counts the same sum.
C26_RowsEqualIssues ==
  /\ pc = "auditorProV3: dashboard" =>
       /\ Len(ui_rows) = issues_found
       /\ issues_found = IssueSum("auditorProV3")
       /\ LastLine = PerfectMatch <=> IssueSum("auditorProV3") = 0
       /\ LastLine = Found(issues_found) <=> IssueSum("auditorProV3") # 0
  /\ pc = "diffV2: main" =>
       /\ issues_found = IssueSum("diffV2")
       /\ LastLine = PerfectMatch <=> IssueSum("diffV2") = 0

\* three issues, one of each kind: a method with two differences, a method
\* that Local lacks, and a path of two methods that Local lacks
C26_Witness ==
  /\ pc = "auditorProV3: dashboard"
  /\ issues_found = 3
  /\ [i \in 1..Len(ui_rows) |-> ui_rows[i].Issue]
       = << <<"GET", " Mismatch">>, <<"Method ", "POST", " Missing">>,
            <<"Entire Path Missing">> >>
  /\ Cardinality({i \in 1..Len(report_lines) : report_lines[i].d # <<>>}) = 2
  /\ Cardinality(MethodsOf(DevPaths, "/b")) = 2

\* C28: in main of AWSGatewayDiff.py the integration check of a method that
\* both definitions hold completes without raising, and the method counts as
\* one difference if and only if its two normalized integrations differ, a
\* method with an integration block on one side only included.
C28_IntegrationCheckCompletes ==
  /\ pc # "AWSGatewayDiff: AttributeError"
  /\ pc = "AWSGatewayDiff: main" =>
       issues_found =
         Cardinality(KeysOf(DevPaths) \ KeysOf(LocalPaths))
           + Cardinality(MissingMethods(DevPaths, LocalPaths))
           + Cardinality({pm \in CommonMethods(DevPaths, LocalPaths) :
                            normalize_integration_gatewayDiff(Details(DevPaths, pm))
                              # normalize_integration_gatewayDiff(Details(LocalPaths, pm))})

\* The name occurs in the environment or in the secrets of the container.
Occurs(container_def, name) ==
  name \in NamesOf(container_def.environment) \cup NamesOf(container_def.secrets)

EcsCompared == pc \in {"auditorProV3: ECS", "diffv3: ECS", "ultimateDiffV2: ECS"}

\* C29: in the ECS comparison a variable is classified as missing in the
\* source if and only if its name occurs in neither the environment nor the
\* secrets of the source container, and as missing in the target if and only
\* if its name occurs in neither list of the target container, whatever the
\* values are, the value '-' included.
C29_MissingIffNameAbsent ==
  EcsCompared =>
    \A i \in 1..Len(rows) :
      /\ rows[i].Status \in {"Missing in Source", "Missing in Dev"}
           <=> ~Occurs(c_dev, rows[i].Variable)
      /\ rows[i].Status \in {"Missing in Target", "Missing in Stg"}
           <=> ~Occurs(c_stg, rows[i].Variable)

\* Every variable of the two containers has the status Match.
EveryVariableMatches ==
  LET map_d == parse_ecs_env(c_dev)
      map_s == parse_ecs_env(c_stg)
  IN  \A k \in DOMAIN map_d \cup DOMAIN map_s :
        Classify(k, map_d, map_s, ValueOf(map_d, k), ValueOf(map_s, k),
                 region_context)[1] = "Match"

\* C30: in render_ecs_dashboard a variable with the status Match produces no
\* row: the rows are those of the missing, region-violating, type-risky or
\* differing variables only, and when every variable matches the row list is
\* empty and the dashboard reports that the configuration is identical.
C30_MatchProducesNoRow ==
  pc = "auditorProV3: ECS" =>
    /\ \A i \in 1..Len(rows) :
         rows[i].Status \in {"Missing in Source", "Missing in Target", "Region Violation",
                             "Type Risk", "Config Diff", "Value Drift"}
    /\ EveryVariableMatches =>
         /\ rows = <<>>
         /\ st = <<Shown("st.success", "Configuration Logic is Identical!", 0)>>

====
